---- MODULE Spec2Model ----
(***************************************************************************)
(* Verification model of warp-plus (bepass-org/warp-plus).                 *)
(*                                                                         *)
(*   Spec     the orchestrator: app.RunWarp with its three scenarios       *)
(*            (plain, warp+psiphon, warp-in-warp), wiresocks.RunScan,      *)
(*            wiresocks.StartWireguard, VirtualTun.StartProxy / Stop.      *)
(*   FairSpec Spec with weak fairness on the program's own steps.          *)
(*   FwdSpec  the UDP forwarder wiresocks.NewVtunUDPForwarder with its     *)
(*            two forwarding goroutines and the closing goroutine.         *)
(*   FwdFairSpec  FwdSpec with weak fairness on the goroutines' steps.     *)
(***************************************************************************)
EXTENDS Naturals, Integers, Sequences, FiniteSets, TLC

VARIABLES
    \* ---- orchestrator (app.RunWarp) ----
    opts,        \* app.WarpOptions of this call
    pc,          \* position of RunWarp
    ret,         \* "running", "nil" or the error RunWarp returned
    ctxDone,     \* the root context has been cancelled
    endpoints,   \* local variable endpoints of RunWarp
    conf,        \* local variable conf (*wiresocks.Configuration)
    iniRead,     \* per hop, the INI contents ParseConfig read (history)
    dev,         \* per hop, the WireGuard device StartWireguard built
    tnet,        \* local variable tnet: hop of the VirtualTun held
    fwd,         \* result of NewVtunUDPForwarder
    proxy,       \* the mixed proxy StartProxy started
    psi,         \* the Psiphon configuration RunPsiphon built
    identities,  \* identity directories LoadOrCreateIdentity handled
    log,         \* history: the calls RunWarp made, in order
    \* ---- wiresocks.RunScan ----
    scanPc,      \* position of RunScan
    scanCtx,     \* context given to the scanner: "none", "live", "done"
    available,   \* the scanner's available set (sorted IPInfo list)
    ipList,      \* local variable ipList: the last snapshot taken
    scanResult,  \* the result RunScan returned
    \* ---- UDP forwarder (wiresocks.NewVtunUDPForwarder) ----
    fNew,        \* outcome of the call: "init", "ok" or the failing step
    fCtxDone,    \* the context passed to the forwarder is cancelled
    listener,    \* host UDP listener: "none", "open", "closed"
    rconn,       \* virtual-stack UDP socket: "none", "open", "closed"
    hostIn,      \* datagrams queued at the host listener
    vtunIn,      \* datagrams queued at the virtual-stack socket
    clientAddr,  \* shared variable clientAddr (NoAddr = nil)
    stored,      \* every value clientAddr has held (history)
    hostTask,    \* goroutine host -> vtun: [pc, dg]
    vtunTask,    \* goroutine vtun -> host: [pc, dg]
    wg,          \* sync.WaitGroup counter
    closer,      \* closing goroutine: "none", "waiting", "done"
    hostRead,    \* history: datagrams read from the host listener
    vtunRead,    \* history: datagrams read from the virtual-stack socket
    vtunOut,     \* history: datagrams written to the virtual-stack socket
    hostOut,     \* history: datagrams written to the host listener
    dropped,     \* history: replies dropped, with what had been read then
    sent,        \* number of datagrams the environment has produced
    \* ---- scan engine (engine.Engine.Run) ----
    ePc,         \* position of Engine.Run
    eCtx,        \* the context given to Engine.Run is cancelled
    eCidrs,      \* candidate addresses of the configured CIDR list
    eSignal,     \* a signal is pending on the channel ipQueue.available
    eBatch,      \* local variable batch
    eIdx,        \* position of the for loop in batch
    eRound,      \* history: what the current loop iteration has done
    eErrSeen,    \* history: the generator has failed in an earlier iteration
    \* ---- proxy handler (VirtualTun.generalHandler) ----
    hPc,         \* position of generalHandler
    hOpen,       \* which of conn and req.Conn are open
    hLeft,       \* per direction, chunks the sender has yet to send before EOF
    hGot,        \* per direction, chunks copied to the other connection
    hCopy,       \* per direction, the copying goroutine: [pc, err]
    hDone,       \* channel done (capacity 1)
    hLogged,     \* history: the errors the handler has logged
    hRet,        \* what generalHandler returned, "none" before
    \* ---- configuration (wiresocks.ParseConfig, request of StartWireguard) ----
    cPc,         \* "idle", "init", "parsed", "failed" or "built"
    cIni,        \* contents of the INI file given to ParseConfig
    cEndpoint,   \* argument endpoint of ParseConfig
    cOut,        \* what ParseConfig returned
    cReq,        \* the request StartWireguard wrote
    cId,         \* the Identity createConf writes the file from, if any
    keyToHex,    \* what encodeBase64ToHex returns for each key text (fixed)
    \* ---- psiphon.RunPsiphon ----
    rPc,         \* position of RunPsiphon
    rRet,        \* what RunPsiphon returned
    rCtx,        \* ctx.Err() of the caller's context: "live", "canceled", "deadline"
    rChildErr,   \* childCtx.Err(): "", "canceled" or "deadline", whichever came first
    rTick,       \* a tick is pending on t.C
    rFailed,     \* history: attempts that have failed (saturating)
    \* ---- psiphon.StartTunnel ----
    tPc,         \* position of the caller of StartTunnel
    tRet,        \* what StartTunnel returned: "tunnel" or an error
    tErr,        \* the error the caller received from errored
    errored,     \* channel errored (capacity 1)
    connected,   \* channel connected (capacity 1)
    tPosts,      \* history: the sends on errored that were tried, in order
    tPort,       \* tunnel.SOCKSProxyPort
    store,       \* the data store: [opened, closes]
    stopped,     \* tunnel.stopController has been called
    ctrl,        \* the controller task: "none", "running", "exited", "done"
    watch,       \* tunnel core's establishment watcher
    imp,         \* the embedded-server-list import task
    established, \* tunnel core has established a tunnel
    \* ---- main ----
    mPc,         \* position of main: "idle", "flags", "running" or "exited"
    mFlags,      \* the command line as ff.Parse found it
    mExit,       \* the exit code of the process, "none" while it runs
    mHanded,     \* history: the (v4, v6) pairs main passed on
    mAtSignal,   \* history: what RunWarp had returned when the signal came
    \* ---- warp identities (createPrimaryAndSecondaryIdentities) ----
    aPc,         \* position inside LoadOrCreateIdentity
    aPath,       \* the directory of the current call
    aStage,      \* which CreateIdentity call runs: "first" (after a failed
                 \* load) or "second" (after the license comparison)
    aLicense,    \* argument license
    aStored,     \* the directories as they were at the start (fixed)
    aDir,        \* the directories: [identity, profile] per path
    aId,         \* local variable i
    aRet,        \* per path, what LoadOrCreateIdentity returned
    aWiped,      \* history: per path, how often the directory was wiped
    aRegistered, \* history: per path, the identities registered for it
    aSeq,        \* registrations the server has answered
    defaultHeaders, \* the package variable defaultHeaders
    aReqs,       \* history: the requests sent, with their headers
    aUmask,      \* the process's file mode creation mask
    aModes,      \* history: per path and file, the modes it was created with
    \* ---- WireGuard device, outbound: the trick flag ----
    dvTrick,     \* the peer's trick flag, as IpcSet's trick= line set it
    dvUp,        \* the device is up and its UDP socket open
    dvSock,      \* the sockets opened so far; the open one is the last
    dvJunkDue,   \* per-socket state: the junk datagram is still to be sent
    dvHs,        \* handshake of the peer: "none", "sent", "established"
    dvWire,      \* history: the datagrams emitted, [sock, kind], in order
    \* ---- WireGuard device, inbound: the replay window of a peer ----
    rpSession,   \* the sessions the peer has had; the current one is the last
    rpLast,      \* the highest counter accepted in the session, -1 for none
    rpSeen,      \* the counters of the window that are marked as received
    rpAccepted,  \* history: the packets accepted, [session, counter]
    rpArrived,   \* history: the packets that arrived, [session, counter]
    \* ---- WireGuard device, inbound: parallel decryption of a peer ----
    roArrived,   \* the counters taken from the socket so far
    roDecrypting, \* reorder buffer: counters whose decrypt task is running
    roReady,     \* reorder buffer: counters decrypted and not yet delivered
    roDelivered, \* history: the counters delivered to the stack, in order
    \* ---- scanner: one call of Ping.DoPing ----
    pgPc,        \* "idle", "call" or "returned"
    pgOps,       \* Options.SelectedOps, as the set of the selected modes
    pgNet,       \* what a probe of each mode would report for the address
    pgProbes,    \* history: the probes performed, in order
    pgRet        \* what DoPing returned: [info, err]

warpVars == <<opts, pc, ret, ctxDone, endpoints, conf, iniRead, dev, tnet, fwd,
              proxy, psi, identities, log, scanPc, scanCtx, available, ipList,
              scanResult>>
fwdVars == <<fNew, fCtxDone, listener, rconn, hostIn, vtunIn, clientAddr, stored,
             hostTask, vtunTask, wg, closer, hostRead, vtunRead, vtunOut,
             hostOut, dropped, sent>>
engVars == <<ePc, eCtx, eCidrs, eSignal, eBatch, eIdx, eRound, eErrSeen>>
hdlVars == <<hPc, hOpen, hLeft, hGot, hCopy, hDone, hLogged, hRet>>
cfgVars == <<cPc, cIni, cEndpoint, cOut, cReq, cId, keyToHex>>
runVars == <<rPc, rRet, rCtx, rChildErr, rTick, rFailed>>
tunVars == <<tPc, tRet, tErr, errored, connected, tPosts, tPort, store, stopped>>
coreVars == <<ctrl, watch, imp, established>>
psiVars == <<runVars, tunVars, coreVars>>
mainVars == <<mPc, mFlags, mExit, mHanded, mAtSignal>>
accVars == <<aPc, aPath, aStage, aLicense, aStored, aDir, aId, aRet, aWiped,
             aRegistered, aSeq, defaultHeaders, aReqs, aUmask, aModes>>
trickVars == <<dvTrick, dvUp, dvSock, dvJunkDue, dvHs, dvWire>>
replayVars == <<rpSession, rpLast, rpSeen, rpAccepted, rpArrived>>
reorderVars == <<roArrived, roDecrypting, roReady, roDelivered>>
devVars == <<trickVars, replayVars, reorderVars>>
pingVars == <<pgPc, pgOps, pgNet, pgProbes, pgRet>>
vars == <<warpVars, fwdVars, engVars, hdlVars, cfgVars, psiVars, mainVars, accVars, devVars, pingVars>>

\* What the orchestrator's actions leave alone, what the forwarder's do, and
\* what the scan engine's do (the engine shares the available set).
notWarp == <<fwdVars, engVars, hdlVars, cfgVars, psiVars, mainVars, accVars, devVars, pingVars>>
notFwd == <<warpVars, engVars, hdlVars, cfgVars, psiVars, mainVars, accVars, devVars, pingVars>>
notHdl == <<warpVars, fwdVars, engVars, cfgVars, psiVars, mainVars, accVars, devVars, pingVars>>
notCfg == <<warpVars, fwdVars, engVars, hdlVars, psiVars, mainVars, accVars, devVars, pingVars>>
notPsi == <<warpVars, fwdVars, engVars, hdlVars, cfgVars, mainVars, accVars, devVars, pingVars>>
notAcc == <<warpVars, fwdVars, engVars, hdlVars, cfgVars, psiVars, mainVars, devVars, pingVars>>
notDev == <<warpVars, fwdVars, engVars, hdlVars, cfgVars, psiVars, mainVars, accVars,
            pingVars>>
notPing == <<warpVars, fwdVars, engVars, hdlVars, cfgVars, psiVars, mainVars, accVars,
             devVars>>
notEng == <<opts, pc, ret, ctxDone, endpoints, conf, iniRead, dev, tnet, fwd,
            proxy, psi, identities, log, scanPc, scanCtx, ipList, scanResult,
            fwdVars, hdlVars, cfgVars, psiVars, mainVars, accVars, devVars, pingVars>>

----------------------------------------------------------------------------
(* Bounds of the model *)

MaxPeers == 2         \* [Peer] sections in a profile INI
MaxRtt == 2           \* RTT values a probe can report
QueueCap == 2         \* capacity of the scanner's available set
MaxDatagrams == 3     \* datagrams the environment sends to the forwarder
MaxBatch == 2         \* addresses the generator yields in one batch
MaxChunks == 2        \* chunks one side of a proxied connection sends

(* Program constants *)

singleMTU == 1330
doubleMTU == 1280

----------------------------------------------------------------------------
(* Addresses and their textual forms *)

V6Hosts == {"2606:4700:d0::1"}
IsV6(ip) == ip \in V6Hosts

\* netip.AddrPort.String(): "ip:port", or "[ip]:port" for IPv6; a text is
\* modelled as the sequence of its tokens.
AddrPortString(ap) ==
    IF IsV6(ap.ip) THEN <<"[", ap.ip, "]", ":", ap.port>>
                   ELSE <<ap.ip, ":", ap.port>>

\* net.SplitHostPort
SplitHostPort(s) ==
    IF Len(s) = 3 /\ s[1] # "[" /\ s[2] = ":"
    THEN [err |-> FALSE, host |-> s[1], port |-> s[3]]
    ELSE IF Len(s) = 5 /\ s[1] = "[" /\ s[3] = "]" /\ s[4] = ":"
         THEN [err |-> FALSE, host |-> s[2], port |-> s[5]]
         ELSE [err |-> TRUE, host |-> "", port |-> ""]

\* netip.MustParseAddrPort("127.0.0.1:0")
LoopbackAny == [ip |-> "127.0.0.1", port |-> "0"]
EphemeralPorts == {"40001", "40002"}

NoAddrPort == [ip |-> "", port |-> ""]

----------------------------------------------------------------------------
(* Inputs of RunWarp *)

Hops == {"single", "outer", "inner"}

PsiphonChoices ==
    { [set |-> FALSE, Country |-> ""],
      [set |-> TRUE, Country |-> ""],
      [set |-> TRUE, Country |-> "AT"] }
Binds == { [ip |-> "127.0.0.1", port |-> "8086"],
           [ip |-> "0.0.0.0", port |-> "1080"] }
ConfiguredEndpoints == { <<"162.159.192.1", ":", "2408">> }

\* app.WarpOptions; Psiphon.set = FALSE is the nil pointer, Scan likewise.
WarpOptions ==
    [Bind : Binds, Endpoint : ConfiguredEndpoints, Psiphon : PsiphonChoices,
     Gool : BOOLEAN, Scan : BOOLEAN]

\* ---- keys ----
\* The alphabet of base64.StdEncoding and the digits of hex.EncodeToString.
encodeStd == "ABCDEFGHIJKLMNOPQRSTUVWXYZabcdefghijklmnopqrstuvwxyz0123456789+/"
hextable == "0123456789abcdef"
StdPadding == "="
CharAt(s, i) == SubSeq(s, i, i)
decodeMap == [c \in {CharAt(encodeStd, i) : i \in 1..64} |->
                 (CHOOSE i \in 1..64 : CharAt(encodeStd, i) = c) - 1]

\* base64.StdEncoding.DecodeString: groups of four characters, each group
\* three bytes, the last group padded with one or two "="; anything else is a
\* corrupt input.
DecodeString(s) ==
    LET n == Len(s)
        pad == IF n > 0 /\ CharAt(s, n) = StdPadding
               THEN (IF n > 1 /\ CharAt(s, n - 1) = StdPadding THEN 2 ELSE 1)
               ELSE 0
        val(i) == IF i > n - pad THEN 0 ELSE decodeMap[CharAt(s, i)]
        quantum(g) == val(4 * g - 3) * 262144 + val(4 * g - 2) * 4096
                      + val(4 * g - 1) * 64 + val(4 * g)
        byte(k) == LET q == quantum((k + 2) \div 3)
                       r == (k - 1) % 3
                   IN CASE r = 0 -> q \div 65536
                        [] r = 1 -> (q \div 256) % 256
                        [] OTHER -> q % 256
    IN IF n % 4 # 0 \/ \E i \in 1..(n - pad) : CharAt(s, i) \notin DOMAIN decodeMap
       THEN [err |-> TRUE, bytes |-> <<>>]
       ELSE [err |-> FALSE, bytes |-> [k \in 1..(3 * (n \div 4) - pad) |-> byte(k)]]

\* hex.EncodeToString: two digits per byte
RECURSIVE EncodeToString(_)
EncodeToString(b) ==
    IF b = <<>> THEN ""
    ELSE CharAt(hextable, (Head(b) \div 16) + 1)
         \o CharAt(hextable, (Head(b) % 16) + 1)
         \o EncodeToString(Tail(b))

\* wiresocks.encodeBase64ToHex
encodeBase64ToHex_NoLengthCheck(key) ==
    LET decoded == DecodeString(key) IN
    IF decoded.err THEN [err |-> "invalid base64 string", hex |-> ""]
    ELSE [err |-> "", hex |-> EncodeToString(decoded.bytes)]
encodeBase64ToHex(key) ==
    LET decoded == DecodeString(key) IN
    IF decoded.err THEN [err |-> "invalid base64 string", hex |-> ""]
    ELSE IF Len(decoded.bytes) # 32
    THEN [err |-> "key should be 32 bytes", hex |-> ""]
    ELSE [err |-> "", hex |-> EncodeToString(decoded.bytes)]

\* Key texts an INI file can hold: the two keys of the scanner example, and
\* texts with a character outside the alphabet, of sixteen bytes, without
\* padding, and empty.  NoKey marks a key the section does not have (it is
\* no text of the model).
privKey == "yGXeX7gMyUIZmK5QIgC7+XX5USUSskQvBYiQ6LdkiXI="
pubKey == "bmXOC+F1FxEMF9dyiK2H5/1SUtzH0JuVo51h2wPfgyo="
KeyBadChar == "yGXe*7gMyUIZmK5QIgC7+XX5USUSskQvBYiQ6LdkiXI="
KeyShort == "AAECAwQFBgcICQoLDA0ODw=="
KeyNoPad == "bmXOC+F1FxEMF9dyiK2H5/1SUtzH0JuVo51h2wPfgyo"
KeyEmpty == ""
NoKey == "<absent>"
KeyTexts == {privKey, pubKey, KeyBadChar, KeyShort, KeyNoPad, KeyEmpty}

\* encodeBase64ToHex over the key texts of the model: the value the variable
\* keyToHex holds from the start
KeyTable == [key \in KeyTexts |-> encodeBase64ToHex(key)]
AllowedIPLists == {<<>>, <<"0.0.0.0/0", "::/0">>}

\* Contents a profile INI can have when ParseConfig reads it: any MTU, any
\* PersistentKeepalive (a text of the file), one or more [Peer] sections, or
\* not parseable.
IniMTUs == {0, 1420}
KeepAlives == {"0", "25"}
IniEndpoint == <<"engage.cloudflareclient.com", ":", "2408">>
IniPeerLists ==
    { [i \in 1..n |-> [KeepAlive |-> k, Endpoint |-> IniEndpoint,
                        PublicKey |-> pubKey, PreSharedKey |-> NoKey,
                        AllowedIPs |-> <<"0.0.0.0/0", "::/0">>]] :
        n \in 1..MaxPeers, k \in KeepAlives }
NoIni == [valid |-> FALSE, MTU |-> 0, PrivateKey |-> KeyEmpty, Peers |-> <<>>]
IniFiles ==
    {NoIni} \cup
    { [valid |-> TRUE, MTU |-> m, PrivateKey |-> privKey, Peers |-> p] :
        m \in IniMTUs, p \in IniPeerLists }

NoInterface == [MTU |-> 0, PrivateKey |-> ""]
NoConf == [Interface |-> NoInterface, Peers |-> <<>>]

\* wiresocks.ParseInterface: the PrivateKey (an empty text when the section
\* has none) must decode; the MTU is the section's.
ParseInterface(ini) ==
    LET privateKeyHex == keyToHex[ini.PrivateKey] IN
    IF privateKeyHex.err # ""
    THEN [err |-> TRUE, iface |-> NoInterface]
    ELSE [err |-> FALSE,
          iface |-> [MTU |-> ini.MTU, PrivateKey |-> privateKeyHex.hex]]

\* sectionKey.Int() of a PersistentKeepalive text: strconv.ParseInt(s, 0, 64)
\* over texts of digits (a leading 0 before more digits selects base 8); a
\* text with any other character is an error.  The texts of the model carry
\* no sign, no 0x/0b/0o prefix and no underscore.
DigitOf(ch) ==
    IF \E d \in 0..9 : CharAt("0123456789", d + 1) = ch
    THEN CHOOSE d \in 0..9 : CharAt("0123456789", d + 1) = ch
    ELSE 10
RECURSIVE DigitsValue(_, _)
DigitsValue(digs, base) ==
    IF digs = <<>> THEN 0
    ELSE DigitsValue(SubSeq(digs, 1, Len(digs) - 1), base) * base + digs[Len(digs)]
KeyInt(s) ==
    LET base == IF Len(s) > 1 /\ CharAt(s, 1) = "0" THEN 8 ELSE 10
        digs == [i \in 1..Len(s) |-> DigitOf(CharAt(s, i))]
    IN IF Len(s) = 0 \/ \E i \in DOMAIN digs : digs[i] >= base
       THEN [err |-> TRUE, n |-> 0]
       ELSE [err |-> FALSE, n |-> DigitsValue(digs, base)]

\* the default PreSharedKey of a peer
ZeroKey == "0000000000000000000000000000000000000000000000000000000000000000"

\* wiresocks.ParsePeers: Trick is never read from the file (zero value false),
\* Endpoint is the section's.  A PublicKey or PreSharedKey the section has
\* must decode; without one the PublicKey stays empty and the PreSharedKey
\* all zeros.  A PersistentKeepalive the section has must be a number;
\* without one KeepAlive stays 0.
ParsePeers_SharedDefaults(ini) ==
    LET sections == ini.Peers
        has(i, name) == sections[i][name] # NoKey
        value(i, name) == keyToHex[sections[i][name]]
        seen(i, name) == {j \in 1..i : has(j, name)}
        last(i, name) == CHOOSE j \in seen(i, name) : \A k \in seen(i, name) : k <= j
    IN
    IF \/ Len(sections) < 1
       \/ \E i \in DOMAIN sections : \E name \in {"PublicKey", "PreSharedKey"} :
             has(i, name) /\ value(i, name).err # ""
       \/ \E i \in DOMAIN sections :
             has(i, "KeepAlive") /\ KeyInt(sections[i].KeepAlive).err
    THEN [err |-> TRUE, peers |-> <<>>]
    ELSE [err |-> FALSE,
          peers |->
            [i \in DOMAIN sections |->
                [PublicKey |-> IF has(i, "PublicKey")
                               THEN value(i, "PublicKey").hex ELSE "",
                 PreSharedKey |-> IF seen(i, "PreSharedKey") # {}
                                  THEN value(last(i, "PreSharedKey"), "PreSharedKey").hex
                                  ELSE ZeroKey,
                 KeepAlive |-> IF seen(i, "KeepAlive") # {}
                               THEN KeyInt(sections[last(i, "KeepAlive")].KeepAlive).n
                               ELSE 0,
                 AllowedIPs |-> sections[i].AllowedIPs,
                 Trick |-> FALSE,
                 Endpoint |-> sections[i].Endpoint]]]
ParsePeers(ini) ==
    LET sections == ini.Peers
        has(i, name) == sections[i][name] # NoKey
        value(i, name) == keyToHex[sections[i][name]]
    IN
    IF \/ Len(sections) < 1
       \/ \E i \in DOMAIN sections : \E name \in {"PublicKey", "PreSharedKey"} :
             has(i, name) /\ value(i, name).err # ""
       \/ \E i \in DOMAIN sections :
             has(i, "KeepAlive") /\ KeyInt(sections[i].KeepAlive).err
    THEN [err |-> TRUE, peers |-> <<>>]
    ELSE [err |-> FALSE,
          peers |->
            [i \in DOMAIN sections |->
                [PublicKey |-> IF has(i, "PublicKey")
                               THEN value(i, "PublicKey").hex ELSE "",
                 PreSharedKey |-> IF has(i, "PreSharedKey")
                                  THEN value(i, "PreSharedKey").hex ELSE ZeroKey,
                 KeepAlive |-> IF has(i, "KeepAlive")
                               THEN KeyInt(sections[i].KeepAlive).n ELSE 0,
                 AllowedIPs |-> sections[i].AllowedIPs,
                 Trick |-> FALSE,
                 Endpoint |-> sections[i].Endpoint]]]

\* ParseConfig whose loop changes its copy of each peer and does not store it
ParseConfig_NoWriteBack(ini, endpoint) ==
    IF ~ini.valid
    THEN [err |-> TRUE, conf |-> NoConf]
    ELSE LET iface == ParseInterface(ini)
             peers == ParsePeers(ini)
         IN IF iface.err \/ peers.err
            THEN [err |-> TRUE, conf |-> NoConf]
            ELSE [err |-> FALSE,
                  conf |-> [Interface |-> iface.iface, Peers |-> peers.peers]]

\* wiresocks.ParseConfig(path, endpoint): every peer's endpoint is replaced.
ParseConfig(ini, endpoint) ==
    IF ~ini.valid
    THEN [err |-> TRUE, conf |-> NoConf]
    ELSE LET iface == ParseInterface(ini)
             peers == ParsePeers(ini)
         IN IF iface.err \/ peers.err
            THEN [err |-> TRUE, conf |-> NoConf]
            ELSE [err |-> FALSE,
                  conf |-> [Interface |-> iface.iface,
                            Peers |-> [i \in DOMAIN peers.peers |->
                                         [peers.peers[i] EXCEPT !.Endpoint = endpoint]]]]

\* runWarp / runWarpWithPsiphon / outer hop of runWarpInWarp:
\* conf.Interface.MTU = singleMTU; every peer Trick = true, KeepAlive = 3.
SingleHopConf_NoMTU(c) ==
    [c EXCEPT !.Peers = [i \in DOMAIN c.Peers |->
                           [c.Peers[i] EXCEPT !.Trick = TRUE, !.KeepAlive = 3]]]
SingleHopConf_FirstPeerOnly(c) ==
    [c EXCEPT !.Interface.MTU = singleMTU,
              !.Peers = [i \in DOMAIN c.Peers |->
                           IF i = 1
                           THEN [c.Peers[i] EXCEPT !.Trick = TRUE, !.KeepAlive = 3]
                           ELSE c.Peers[i]]]
SingleHopConf(c) ==
    [c EXCEPT !.Interface.MTU = singleMTU,
              !.Peers = [i \in DOMAIN c.Peers |->
                           [c.Peers[i] EXCEPT !.Trick = TRUE, !.KeepAlive = 3]]]

\* inner hop of runWarpInWarp: MTU = doubleMTU; every peer KeepAlive = 10.
InnerHopConf(c) ==
    [c EXCEPT !.Interface.MTU = doubleMTU,
              !.Peers = [i \in DOMAIN c.Peers |->
                           [c.Peers[i] EXCEPT !.KeepAlive = 10]]]

NoDevice == [state |-> "none", mtu |-> 0, peers |-> <<>>, watcher |-> "none"]

\* StartWireguard without the check of IpcSet's error: Up is called on a
\* device that has no configuration
StartWireguard_UpRegardless(c, out) ==
    CASE out = "CreateNetTUN failed" -> NoDevice
      [] out = "IpcSet failed" ->
            [state |-> "up", mtu |-> c.Interface.MTU, peers |-> <<>>,
             watcher |-> "none"]
      [] out = "Up failed" ->
            [state |-> "configured", mtu |-> c.Interface.MTU, peers |-> c.Peers,
             watcher |-> "none"]
      [] OTHER ->
            [state |-> "up", mtu |-> c.Interface.MTU, peers |-> c.Peers,
             watcher |-> "none"]

\* wiresocks.StartWireguard: the request lists the peers of conf; the virtual
\* stack is created with conf.Interface.MTU; then IpcSet, then Up.  `out` is
\* the step that fails, or "ok".
StartWireguard(c, out) ==
    CASE out = "CreateNetTUN failed" -> NoDevice
      [] out = "IpcSet failed" ->
            [state |-> "created", mtu |-> c.Interface.MTU, peers |-> <<>>,
             watcher |-> "none"]
      [] out = "Up failed" ->
            [state |-> "configured", mtu |-> c.Interface.MTU, peers |-> c.Peers,
             watcher |-> "none"]
      [] OTHER ->
            [state |-> "up", mtu |-> c.Interface.MTU, peers |-> c.Peers,
             watcher |-> "none"]
StartWireguardOutcomes == {"ok", "CreateNetTUN failed", "IpcSet failed", "Up failed"}

NoFwd == [created |-> FALSE, bind |-> NoAddrPort, dest |-> <<>>, via |-> "none",
          addr |-> NoAddrPort, mtu |-> 0]
NoProxy == [started |-> FALSE, bind |-> NoAddrPort, addr |-> NoAddrPort, hop |-> "none"]
NoPsi == [built |-> FALSE, started |-> FALSE, EgressRegion |-> "",
          ListenInterface |-> "", LocalSocksProxyPort |-> "", UpstreamProxyURL |-> <<>>]

\* The address net.Listen / net.ListenUDP binds for a requested address:
\* port 0 asks for an ephemeral port.
BoundAddrs(bind) ==
    IF bind.port = "0" THEN { [bind EXCEPT !.port = p] : p \in EphemeralPorts }
                       ELSE {bind}

\* psiphon.RunPsiphon's embedded configuration.
PsiphonConfig(wgBind, localSocksPort, country) ==
    LET hp == SplitHostPort(localSocksPort) IN
    [built |-> TRUE, started |-> FALSE,
     EgressRegion |-> country,
     ListenInterface |-> IF hp.host \in {"127.0.0.1"} THEN "" ELSE "any",
     LocalSocksProxyPort |-> hp.port,
     UpstreamProxyURL |-> <<"socks5://">> \o wgBind]

----------------------------------------------------------------------------
(* The scanner's available set, as the specification describes it *)

ScanAddrPorts == { [ip |-> "162.159.192.5", port |-> "2408"],
                   [ip |-> "188.114.97.7", port |-> "908"],
                   [ip |-> "2606:4700:d0::1", port |-> "2408"] }
IPInfos == [AddrPort : ScanAddrPorts, RTT : 1..MaxRtt]

\* position at which info goes into q, sorted by RTT ascending
InsertAt(q, info) ==
    1 + Cardinality({i \in DOMAIN q : q[i].RTT <= info.RTT})
InsertSorted(q, info) ==
    LET k == InsertAt(q, info) IN
    SubSeq(q, 1, k - 1) \o <<info>> \o SubSeq(q, k, Len(q))

\* insertion rules (a) below capacity, (b) evict the maximum, (c) ignore a
\* duplicate address
Enqueue_Unsorted(q, info) ==
    IF \E i \in DOMAIN q : q[i].AddrPort = info.AddrPort THEN q
    ELSE IF Len(q) < QueueCap THEN Append(q, info)
    ELSE IF info.RTT < q[Len(q)].RTT
         THEN Append(SubSeq(q, 1, Len(q) - 1), info)
         ELSE q
Enqueue_NoEvict(q, info) ==
    IF \E i \in DOMAIN q : q[i].AddrPort = info.AddrPort THEN q
    ELSE IF Len(q) < QueueCap THEN InsertSorted(q, info)
    ELSE q
Enqueue(q, info) ==
    IF \E i \in DOMAIN q : q[i].AddrPort = info.AddrPort THEN q
    ELSE IF Len(q) < QueueCap THEN InsertSorted(q, info)
    ELSE IF info.RTT < q[Len(q)].RTT
         THEN InsertSorted(SubSeq(q, 1, Len(q) - 1), info)
         ELSE q

RemoveAt(q, i) == SubSeq(q, 1, i - 1) \o SubSeq(q, i + 1, Len(q))

\* the expiration sweep: the entries at the positions `old` have outlived the
\* TTL and are dropped, the others keep their order
Expire(q, old) ==
    LET keep == {i \in DOMAIN q : i \notin old}
        nth(j) == CHOOSE i \in keep : Cardinality({k \in keep : k < i}) = j - 1
    IN [j \in 1..Cardinality(keep) |-> q[nth(j)]]

\* a snapshot of the available set, best first unless desc
AvailableIPs(q, desc) ==
    IF desc THEN [i \in DOMAIN q |-> q[Len(q) + 1 - i]] ELSE q

\* Engine.GetAvailableIPs(desc)
GetAvailableIPs(q, desc) == AvailableIPs(q, desc)

----------------------------------------------------------------------------
(* The scan engine's initial state *)

\* the addresses the generator can draw from a non-empty CIDR list
Candidates == {a.ip : a \in ScanAddrPorts}

NoRound == [sig |-> FALSE, pulls |-> 0, genErr |-> FALSE, probed |-> <<>>,
            enq |-> <<>>, swept |-> FALSE, pend |-> FALSE]

EngStart ==
    /\ ePc = "init"
    /\ eCtx = FALSE
    /\ eSignal = FALSE
    /\ eBatch = <<>>
    /\ eIdx = 1
    /\ eRound = NoRound
    /\ eErrSeen = FALSE

EngIdle == EngStart /\ eCidrs = {}

\* No proxied connection is being handled.
Dirs == {"up", "down"}       \* up: req.Conn -> conn, down: conn -> req.Conn
HdlStart ==
    /\ hPc = "idle"
    /\ hOpen = [conn |-> FALSE, req |-> TRUE]
    /\ hGot = [d \in Dirs |-> 0]
    /\ hCopy = [d \in Dirs |-> [pc |-> "none", err |-> "none"]]
    /\ hDone = <<>>
    /\ hLogged = <<>>
    /\ hRet = "none"
HdlIdle == HdlStart /\ hLeft = [d \in Dirs |-> 0]

\* No configuration is being parsed outside RunWarp.
CfgIdle ==
    /\ cPc = "idle"
    /\ cIni = <<>>
    /\ cEndpoint = <<>>
    /\ cOut = <<>>
    /\ cReq = <<>>
    /\ cId = <<>>
    /\ keyToHex = KeyTable

\* StartTunnel before it is called: fresh channels, no task, the data store
\* closed
TunFresh ==
    /\ tRet = ""
    /\ tErr = ""
    /\ errored = <<>>
    /\ connected = <<>>
    /\ tPosts = <<>>
    /\ tPort = "0"
    /\ store = [opened |-> FALSE, closes |-> 0]
    /\ stopped = FALSE
    /\ ctrl = "none"
    /\ watch = "none"
    /\ imp = "none"
    /\ established = FALSE
RunFresh ==
    /\ rRet = ""
    /\ rCtx = "live"
    /\ rChildErr = ""
    /\ rTick = FALSE
    /\ rFailed = 0
\* RunPsiphon is not running
PsiIdle ==
    /\ rPc = "idle"
    /\ tPc = "idle"
    /\ RunFresh
    /\ TunFresh

\* main before it has looked at its flags
NoPair == [V4 |-> FALSE, V6 |-> FALSE, set |-> FALSE]
MainFresh ==
    /\ mFlags = <<>>
    /\ mExit = "none"
    /\ mHanded = [random |-> NoPair, scan |-> NoPair]
    /\ mAtSignal = "none"
\* RunWarp is called by another program than main
MainIdle ==
    /\ mPc = "idle"
    /\ MainFresh

\* makeDefaultHeaders()
makeDefaultHeaders ==
    ("Content-Type" :> "application/json; charset=UTF-8")
    @@ ("User-Agent" :> "okhttp/3.12.1")
    @@ ("CF-Client-Version" :> "a-6.30-3596")

\* the identity directories, "./stuff/primary" and "./stuff/secondary"
Paths == {"./stuff/primary", "./stuff/secondary"}
NoIdentity == [ID |-> "", Token |-> "", License |-> "", Peers |-> 0]
EmptyDir == [identity |-> "none", profile |-> "none"]
\* no identity call has been made
AccFresh ==
    /\ aStage = "none"
    /\ aId = NoIdentity
    /\ aRet = [p \in Paths |-> "none"]
    /\ aWiped = [p \in Paths |-> 0]
    /\ aRegistered = [p \in Paths |-> <<>>]
    /\ aSeq = 0
    /\ defaultHeaders = makeDefaultHeaders
    /\ aReqs = <<>>
    /\ aModes = [p \in Paths |-> [identity |-> {}, profile |-> {}]]

\* permission bits: a mode is the set of the bits that are set
Mode0666 == {"ur", "uw", "gr", "gw", "or", "ow"}
Mode0600 == {"ur", "uw"}
\* the masks 022 and 077
Umasks == {{"gw", "ow"}, {"gr", "gw", "gx", "or", "ow", "ox"}}

\* the device has not been brought up and no packet has arrived
TrickIdle ==
    /\ dvTrick = FALSE
    /\ dvUp = FALSE
    /\ dvSock = 0
    /\ dvJunkDue = FALSE
    /\ dvHs = "none"
    /\ dvWire = <<>>
ReplayIdle ==
    /\ rpSession = 1
    /\ rpLast = -1
    /\ rpSeen = {}
    /\ rpAccepted = <<>>
    /\ rpArrived = <<>>
ReorderIdle ==
    /\ roArrived = {}
    /\ roDecrypting = {}
    /\ roReady = {}
    /\ roDelivered = <<>>
DevIdle == TrickIdle /\ ReplayIdle /\ ReorderIdle

\* the modes of a probe, in the order DoPing tests them
PingModes == <<"HTTP", "TLS", "TCP", "QUIC", "WARP">>
Modes == {PingModes[k] : k \in DOMAIN PingModes}
\* DoPing is not being called
PingIdle ==
    /\ pgPc = "idle"
    /\ pgOps = {}
    /\ pgNet = [mode \in Modes |-> "timeout"]
    /\ pgProbes = <<>>
    /\ pgRet = <<>>

AccIdle ==
    /\ aPc = "idle"
    /\ aUmask = {"gw", "ow"}
    /\ aPath = "./stuff/primary"
    /\ aLicense = ""
    /\ aStored = [p \in Paths |-> EmptyDir]
    /\ aDir = aStored
    /\ AccFresh

----------------------------------------------------------------------------
(* The UDP forwarder's initial state (used by both specifications) *)

NoAddr == "nil"
ClientAddrs == {"127.0.0.1:50001", "127.0.0.1:50002"}
DestAddr == "162.159.192.1:2408"
DatagramLens == {148, 1400}
NoDatagram == [id |-> 0, src |-> NoAddr, len |-> 0]
IdleTask == [pc |-> "none", dg |-> NoDatagram]

FwdIdle ==
    /\ fNew = "init"
    /\ fCtxDone = FALSE
    /\ listener = "none"
    /\ rconn = "none"
    /\ hostIn = <<>>
    /\ vtunIn = <<>>
    /\ clientAddr = NoAddr
    /\ stored = {NoAddr}
    /\ hostTask = IdleTask
    /\ vtunTask = IdleTask
    /\ wg = 0
    /\ closer = "none"
    /\ hostRead = <<>>
    /\ vtunRead = <<>>
    /\ vtunOut = <<>>
    /\ hostOut = <<>>
    /\ dropped = <<>>
    /\ sent = 0

----------------------------------------------------------------------------
(* app.RunWarp *)

\* RunWarp has been called and has done nothing yet
WarpStart ==
    /\ pc = [fn |-> "RunWarp", at |-> "start"]
    /\ ret = "running"
    /\ ctxDone = FALSE
    /\ endpoints = <<>>
    /\ conf = NoConf
    /\ iniRead = [h \in Hops |-> NoIni]
    /\ dev = [h \in Hops |-> NoDevice]
    /\ tnet = "none"
    /\ fwd = NoFwd
    /\ proxy = NoProxy
    /\ psi = NoPsi
    /\ identities = {}
    /\ log = <<>>
    /\ scanPc = "idle"
    /\ scanCtx = "none"
    /\ available = <<>>
    /\ ipList = <<>>
    /\ scanResult = <<>>

Init ==
    /\ opts \in WarpOptions
    /\ WarpStart
    /\ FwdIdle
    /\ EngIdle
    /\ HdlIdle
    /\ CfgIdle
    /\ PsiIdle
    /\ MainIdle
    /\ AccIdle
    /\ DevIdle
    /\ PingIdle

\* One call RunWarp made: which function, on which hop's device, with which
\* textual argument, and the error it returned ("" for none).
Call(op, hop, arg, err) == [op |-> op, hop |-> hop, arg |-> arg, err |-> err]

At(fn, at) == pc = [fn |-> fn, at |-> at]
Goto(fn, at) == pc' = [fn |-> fn, at |-> at] /\ ret' = ret

\* `return err` out of RunWarp ("nil" for no error)
Return(e) ==
    /\ pc' = [fn |-> "RunWarp", at |-> "returned"]
    /\ ret' = e

\* RunWarp's option checks
ValidateOptions_NoGoolCheck(o) ==
    IF o.Psiphon.set /\ o.Psiphon.Country = ""
    THEN "must provide country for psiphon"
    ELSE ""
ValidateOptions(o) ==
    IF o.Psiphon.set /\ o.Gool
    THEN "can't use psiphon and gool at the same time"
    ELSE IF o.Psiphon.set /\ o.Psiphon.Country = ""
         THEN "must provide country for psiphon"
         ELSE ""

RunWarpValidate ==
    /\ At("RunWarp", "start")
    /\ IF ValidateOptions(opts) # ""
       THEN Return(ValidateOptions(opts))
       ELSE Goto("RunWarp", "identities")
    /\ UNCHANGED <<opts, ctxDone, endpoints, conf, iniRead, dev, tnet, fwd, proxy,
                   psi, identities, log, scanPc, scanCtx, available, ipList,
                   scanResult>>
    /\ UNCHANGED notWarp

\* createPrimaryAndSecondaryIdentities, then endpoints := {Endpoint, Endpoint}
CreateIdentities ==
    /\ At("RunWarp", "identities")
    /\ \E out \in {"ok", "primary failed", "secondary failed"} :
        /\ identities' = IF out = "primary failed" THEN {"./stuff/primary"}
                         ELSE {"./stuff/primary", "./stuff/secondary"}
        /\ IF out # "ok"
           THEN Return(out) /\ endpoints' = endpoints
           ELSE /\ endpoints' = <<opts.Endpoint, opts.Endpoint>>
                /\ Goto("RunWarp", IF opts.Scan THEN "scan" ELSE "switch")
    /\ UNCHANGED <<opts, ctxDone, conf, iniRead, dev, tnet, fwd, proxy, psi, log,
                   scanPc, scanCtx, available, ipList, scanResult>>
    /\ UNCHANGED notWarp

\* the scenario switch of RunWarp
Scenario(o) ==
    IF o.Psiphon.set THEN "runWarpWithPsiphon"
    ELSE IF o.Gool THEN "runWarpInWarp" ELSE "runWarp"

RunWarpSwitch ==
    /\ At("RunWarp", "switch")
    /\ Goto(Scenario(opts), "ParseConfig")
    /\ log' = Append(log, Call(Scenario(opts), "none", <<>>, ""))
    /\ UNCHANGED <<opts, ctxDone, endpoints, conf, iniRead, dev, tnet, fwd,
                   proxy, psi, identities, scanPc, scanCtx, available, ipList,
                   scanResult>>
    /\ UNCHANGED notWarp

----------------------------------------------------------------------------
(* The steps the three scenarios are made of *)

\* conf, err := wiresocks.ParseConfig(path, endpoint), then the MTU and peer
\* settings of the hop (kind "inner" for the inner hop of warp-in-warp).
ParseStep(fn, at, next, hop, endpoint, kind) ==
    /\ At(fn, at)
    /\ \E ini \in IniFiles :
        LET r == ParseConfig(ini, endpoint) IN
        /\ iniRead' = [iniRead EXCEPT ![hop] = ini]
        /\ IF r.err
           THEN /\ Return("ParseConfig failed")
                /\ conf' = conf
                /\ log' = Append(log, Call("ParseConfig", hop, endpoint,
                                           "ParseConfig failed"))
           ELSE /\ Goto(fn, next)
                /\ conf' = IF kind = "inner" THEN InnerHopConf(r.conf)
                                             ELSE SingleHopConf(r.conf)
                /\ log' = Append(log, Call("ParseConfig", hop, endpoint, ""))
    /\ UNCHANGED <<opts, ctxDone, endpoints, dev, tnet, fwd, proxy, psi,
                   identities, scanPc, scanCtx, available, ipList, scanResult>>
    /\ UNCHANGED notWarp

\* tnet, err := wiresocks.StartWireguard(ctx, l, conf)
WireguardStep(fn, at, next, hop) ==
    /\ At(fn, at)
    /\ \E out \in StartWireguardOutcomes :
        /\ dev' = [dev EXCEPT ![hop] = StartWireguard(conf, out)]
        /\ log' = Append(log, Call("StartWireguard", hop, conf.Peers[1].Endpoint,
                                   IF out = "ok" THEN "" ELSE out))
        /\ IF out = "ok"
           THEN Goto(fn, next) /\ tnet' = hop
           ELSE Return(out) /\ tnet' = tnet
    /\ UNCHANGED <<opts, ctxDone, endpoints, conf, iniRead, fwd, proxy, psi,
                   identities, scanPc, scanCtx, available, ipList, scanResult>>
    /\ UNCHANGED notWarp

\* VirtualTun.StartProxy(bindAddress) on the VirtualTun of hop `h`, when
\* net.Listen bound address `bound`: the proxy serves on the listener and a
\* goroutine waits for vt.Ctx to call vt.Stop.
StartProxy(h, bindAddress, bound) ==
    [started |-> TRUE, bind |-> bindAddress, addr |-> bound, hop |-> h]

\* _, err = tnet.StartProxy(bind); `next` = "return" ends the scenario
ProxyStep(fn, at, next, bindAddress) ==
    /\ At(fn, at)
    /\ \E bound \in BoundAddrs(bindAddress) \cup {NoAddrPort} :
        IF bound = NoAddrPort
        THEN /\ Return("listen failed")
             /\ log' = Append(log, Call("StartProxy", tnet,
                                        AddrPortString(bindAddress), "listen failed"))
             /\ UNCHANGED <<proxy, dev>>
        ELSE /\ proxy' = StartProxy(tnet, bindAddress, bound)
             /\ dev' = [dev EXCEPT ![tnet].watcher = "waiting"]
             /\ log' = Append(log, Call("StartProxy", tnet,
                                        AddrPortString(bindAddress), ""))
             /\ IF next = "return" THEN Return("nil") ELSE Goto(fn, next)
    /\ UNCHANGED <<opts, ctxDone, endpoints, conf, iniRead, tnet, fwd, psi,
                   identities, scanPc, scanCtx, available, ipList, scanResult>>
    /\ UNCHANGED notWarp

----------------------------------------------------------------------------
(* runWarp: plain mode *)

PlainParse ==
    ParseStep("runWarp", "ParseConfig", "StartWireguard", "single",
              endpoints[1], "single")
PlainWireguard ==
    WireguardStep("runWarp", "StartWireguard", "StartProxy", "single")
PlainProxy ==
    ProxyStep("runWarp", "StartProxy", "return", opts.Bind)

(* runWarpWithPsiphon *)

PsiphonParse ==
    ParseStep("runWarpWithPsiphon", "ParseConfig", "StartWireguard", "single",
              endpoints[1], "single")
PsiphonWireguard ==
    WireguardStep("runWarpWithPsiphon", "StartWireguard", "StartProxy", "single")
PsiphonProxy_OnBind ==
    ProxyStep("runWarpWithPsiphon", "StartProxy", "RunPsiphon", opts.Bind)
PsiphonProxy ==
    ProxyStep("runWarpWithPsiphon", "StartProxy", "RunPsiphon", LoopbackAny)

\* err = psiphon.RunPsiphon(ctx, l, warpBind.String(), bind.String(), country):
\* the configuration is built, then StartTunnel is retried every second until
\* it succeeds, the context is cancelled or two minutes have passed.
PsiphonRun ==
    /\ At("runWarpWithPsiphon", "RunPsiphon")
    /\ LET wgBind == AddrPortString(proxy.addr)
           localSocksPort == AddrPortString(opts.Bind)
       IN IF SplitHostPort(localSocksPort).err
          THEN /\ Return("unable to run psiphon")
               /\ psi' = psi
               /\ log' = Append(log, Call("RunPsiphon", "none", wgBind,
                                          "unable to run psiphon"))
          ELSE \E out \in {"ok", "canceled", "maximum time exceeded"} :
                /\ out = "ok" => ~ctxDone
                /\ out = "canceled" => ctxDone
                /\ psi' = [PsiphonConfig(wgBind, localSocksPort, opts.Psiphon.Country)
                             EXCEPT !.started = (out = "ok")]
                /\ Return(IF out = "ok" THEN "nil" ELSE "unable to run psiphon")
                /\ log' = Append(log, Call("RunPsiphon", "none", wgBind,
                                   IF out = "ok" THEN "" ELSE "unable to run psiphon"))
    /\ UNCHANGED <<opts, ctxDone, endpoints, conf, iniRead, dev, tnet, fwd, proxy,
                   identities, scanPc, scanCtx, available, ipList, scanResult>>
    /\ UNCHANGED notWarp

(* runWarpInWarp *)

GoolOuterParse ==
    ParseStep("runWarpInWarp", "ParseConfig", "StartWireguard", "outer",
              endpoints[1], "single")
GoolOuterWireguard ==
    WireguardStep("runWarpInWarp", "StartWireguard", "NewVtunUDPForwarder", "outer")

\* net.ResolveUDPAddr("udp", dest)
ResolveUDPAddr(dest) ==
    LET hp == SplitHostPort(dest) IN
    [err |-> hp.err, addr |-> [ip |-> hp.host, port |-> hp.port]]

\* what a successful NewVtunUDPForwarder(ctx, localBind, dest, vtun, mtu) set
\* up: a host listener bound to `bound`, a virtual-stack socket of vtun
\* towards the resolved dest; it returns the listener's local address.
NewVtunUDPForwarder(localBind, dest, vtun, mtu, bound) ==
    [created |-> TRUE, bind |-> localBind, dest |-> ResolveUDPAddr(dest).addr,
     via |-> vtun, addr |-> bound, mtu |-> mtu]

\* addr, err := wiresocks.NewVtunUDPForwarder(ctx, 127.0.0.1:0, endpoints[1],
\*                                            tnet, singleMTU)
GoolForwarder ==
    /\ At("runWarpInWarp", "NewVtunUDPForwarder")
    /\ \E out \in {"ok", "resolve failed", "listen failed", "dial failed"} :
       \E bound \in BoundAddrs(LoopbackAny) :
        /\ out = "ok" => ~ResolveUDPAddr(endpoints[2]).err
        /\ log' = Append(log, Call("NewVtunUDPForwarder", tnet, endpoints[2],
                                   IF out = "ok" THEN "" ELSE out))
        /\ IF out = "ok"
           THEN /\ fwd' = NewVtunUDPForwarder(LoopbackAny, endpoints[2], tnet,
                                              singleMTU, bound)
                /\ Goto("runWarpInWarp", "inner ParseConfig")
           ELSE /\ fwd' = fwd
                /\ Return(out)
    /\ UNCHANGED <<opts, ctxDone, endpoints, conf, iniRead, dev, tnet, proxy, psi,
                   identities, scanPc, scanCtx, available, ipList, scanResult>>
    /\ UNCHANGED notWarp

GoolInnerParse_DirectEndpoint ==
    ParseStep("runWarpInWarp", "inner ParseConfig", "inner StartWireguard",
              "inner", endpoints[2], "inner")
GoolInnerParse ==
    ParseStep("runWarpInWarp", "inner ParseConfig", "inner StartWireguard",
              "inner", AddrPortString(fwd.addr), "inner")
GoolInnerWireguard ==
    WireguardStep("runWarpInWarp", "inner StartWireguard", "StartProxy", "inner")
GoolProxy ==
    ProxyStep("runWarpInWarp", "StartProxy", "return", opts.Bind)

----------------------------------------------------------------------------
(* Cancellation *)

\* the root context is cancelled (SIGINT / SIGTERM, or the caller)
Cancel ==
    /\ ~ctxDone
    /\ ctxDone' = TRUE
    /\ UNCHANGED <<opts, pc, ret, endpoints, conf, iniRead, dev, tnet, fwd, proxy,
                   psi, identities, log, scanPc, scanCtx, available, ipList,
                   scanResult>>
    /\ UNCHANGED notWarp

\* VirtualTun.Stop: vt.Dev.Down()
Stop(d) == [d EXCEPT !.state = "down"]

\* the goroutine StartProxy spawned: <-vt.Ctx.Done(); vt.Stop()
StopOnCancel(h) ==
    /\ dev[h].watcher = "waiting"
    /\ ctxDone
    /\ dev' = [dev EXCEPT ![h] = [Stop(dev[h]) EXCEPT !.watcher = "done"]]
    /\ UNCHANGED <<opts, pc, ret, ctxDone, endpoints, conf, iniRead, tnet, fwd,
                   proxy, psi, identities, log, scanPc, scanCtx, available,
                   ipList, scanResult>>
    /\ UNCHANGED notWarp

----------------------------------------------------------------------------
(* wiresocks.RunScan, called by RunWarp when opts.Scan is set *)

\* the two entries RunScan copies out of a snapshot
RunScanResult_Swapped(l) == <<l[2], l[1]>>
RunScanResult(l) == <<l[1], l[2]>>

\* RunWarp: endpoints[i] = res[i].AddrPort.String()
ScanEndpoints(res) == [i \in DOMAIN res |-> AddrPortString(res[i].AddrPort)]

\* ini.Load of the primary profile, NewScanner, context.WithTimeout(2 min),
\* scanner.Run(ctx)
ScanStart ==
    /\ At("RunWarp", "scan")
    /\ scanPc = "idle"
    /\ \E loaded \in BOOLEAN :
        IF loaded
        THEN /\ scanPc' = "poll"
             /\ scanCtx' = "live"
             /\ UNCHANGED <<pc, ret>>
        ELSE /\ scanPc' = "returned"
             /\ scanCtx' = scanCtx
             /\ Return("failed to read file")
    /\ UNCHANGED <<opts, ctxDone, endpoints, conf, iniRead, dev, tnet, fwd, proxy,
                   psi, identities, log, available, ipList, scanResult>>
    /\ UNCHANGED notWarp

\* ScanPoll without the deferred cancel()
ScanPoll_NoCancel ==
    /\ At("RunWarp", "scan")
    /\ scanPc = "poll"
    /\ ipList' = GetAvailableIPs(available, FALSE)
    /\ IF Len(available) > 1
       THEN /\ scanResult' = <<available[1], available[2]>>
            /\ scanPc' = "returned"
            /\ endpoints' = ScanEndpoints(scanResult')
            /\ Goto("RunWarp", "switch")
            /\ UNCHANGED scanCtx
       ELSE /\ scanPc' = "wait"
            /\ UNCHANGED <<scanResult, scanCtx, endpoints, pc, ret>>
    /\ UNCHANGED <<opts, ctxDone, conf, iniRead, dev, tnet, fwd, proxy, psi,
                   identities, log, available>>
    /\ UNCHANGED notWarp

\* ipList := scanner.GetAvailableIPs(); with more than one entry the first
\* two are returned (the deferred cancel ends the scanner's context) and
\* RunWarp takes them as its endpoints
ScanPoll ==
    /\ At("RunWarp", "scan")
    /\ scanPc = "poll"
    /\ ipList' = GetAvailableIPs(available, FALSE)
    /\ IF Len(available) > 1
       THEN /\ scanResult' = RunScanResult(available)
            /\ scanCtx' = "done"
            /\ scanPc' = "returned"
            /\ endpoints' = ScanEndpoints(scanResult')
            /\ Goto("RunWarp", "switch")
       ELSE /\ scanPc' = "wait"
            /\ UNCHANGED <<scanResult, scanCtx, endpoints, pc, ret>>
    /\ UNCHANGED <<opts, ctxDone, conf, iniRead, dev, tnet, fwd, proxy, psi,
                   identities, log, available>>
    /\ UNCHANGED notWarp

\* select: case <-ctx.Done(): return nil, error
ScanWaitDone ==
    /\ At("RunWarp", "scan")
    /\ scanPc = "wait"
    /\ ctxDone \/ scanCtx = "done"
    /\ scanPc' = "returned"
    /\ scanCtx' = "done"
    /\ scanResult' = <<>>
    /\ Return("user canceled the operation")
    /\ UNCHANGED <<opts, ctxDone, endpoints, conf, iniRead, dev, tnet, fwd, proxy,
                   psi, identities, log, available, ipList>>
    /\ UNCHANGED notWarp

\* select: case <-t.C: continue
ScanWaitTick ==
    /\ At("RunWarp", "scan")
    /\ scanPc = "wait"
    /\ scanPc' = "poll"
    /\ UNCHANGED <<opts, pc, ret, ctxDone, endpoints, conf, iniRead, dev, tnet, fwd,
                   proxy, psi, identities, log, scanCtx, available, ipList,
                   scanResult>>
    /\ UNCHANGED notWarp

\* the two-minute deadline of RunScan's context expires
ScanDeadline ==
    /\ scanCtx = "live"
    /\ scanCtx' = "done"
    /\ UNCHANGED <<opts, pc, ret, ctxDone, endpoints, conf, iniRead, dev, tnet, fwd,
                   proxy, psi, identities, log, scanPc, available, ipList,
                   scanResult>>
    /\ UNCHANGED notWarp

\* the scanner, running beside RunScan, enqueues a successful probe
ScannerEnqueue ==
    /\ scanPc \in {"poll", "wait"}
    /\ \E info \in IPInfos :
        /\ available' = Enqueue(available, info)
        /\ available' # available
    /\ UNCHANGED <<opts, pc, ret, ctxDone, endpoints, conf, iniRead, dev, tnet, fwd,
                   proxy, psi, identities, log, scanPc, scanCtx, ipList,
                   scanResult>>
    /\ UNCHANGED notWarp

\* the scanner's expiration sweep drops an entry that has grown too old
ScannerExpire ==
    /\ scanPc \in {"poll", "wait"}
    /\ \E i \in DOMAIN available : available' = RemoveAt(available, i)
    /\ UNCHANGED <<opts, pc, ret, ctxDone, endpoints, conf, iniRead, dev, tnet, fwd,
                   proxy, psi, identities, log, scanPc, scanCtx, ipList,
                   scanResult>>
    /\ UNCHANGED notWarp

----------------------------------------------------------------------------
(* The orchestrator's specification *)

RunWarpStep ==
    \/ RunWarpValidate
    \/ CreateIdentities
    \/ ScanStart
    \/ ScanPoll
    \/ ScanWaitDone
    \/ ScanWaitTick
    \/ RunWarpSwitch
    \/ PlainParse
    \/ PlainWireguard
    \/ PlainProxy
    \/ PsiphonParse
    \/ PsiphonWireguard
    \/ PsiphonProxy
    \/ PsiphonRun
    \/ GoolOuterParse
    \/ GoolOuterWireguard
    \/ GoolForwarder
    \/ GoolInnerParse
    \/ GoolInnerWireguard
    \/ GoolProxy

Next ==
    \/ RunWarpStep
    \/ \E h \in Hops : StopOnCancel(h)
    \/ Cancel
    \/ ScanDeadline
    \/ ScannerEnqueue
    \/ ScannerExpire

Spec == Init /\ [][Next]_vars

\* The Go scheduler runs every runnable goroutine: RunWarp's own steps and
\* each goroutine waiting on the context.  Nothing is assumed of signals,
\* timers or the scanner's probes.
FairSpec ==
    /\ Spec
    /\ WF_vars(RunWarpStep)
    /\ \A h \in Hops : WF_vars(StopOnCancel(h))

\* For RunScan: the two-minute timer of context.WithTimeout fires, and a
\* select that finds ctx.Done() ready again and again eventually takes it
\* (the ticker is ready at most once a second).
ScanFairSpec ==
    /\ Spec
    /\ WF_vars(RunWarpStep)
    /\ WF_vars(ScanDeadline)
    /\ SF_vars(ScanWaitDone)

----------------------------------------------------------------------------
(* Properties of the orchestrator *)

Returned == At("RunWarp", "returned")
ScenarioFns == {"runWarp", "runWarpWithPsiphon", "runWarpInWarp"}
\* the calls the running scenario has made so far (log[1] names the scenario)
Calls == IF log = <<>> THEN <<>> ELSE Tail(log)
InScenario(fn) == log # <<>> /\ log[1].op = fn

\* C1: after the root context is cancelled, every WireGuard device that
\* StartWireguard brought up is eventually brought Down (plain: the single
\* device; psiphon: the Warp device; warp-in-warp: the outer and the inner
\* device).
\* (Stated for the calls in which RunWarp returned nil, the scenario being
\* fully started.)
C1_DevicesGoDown ==
    \A h \in Hops :
        (ctxDone /\ Returned /\ ret = "nil" /\ dev[h].state = "up")
            ~> (dev[h].state = "down")

GoolOrder ==
    <<"ParseConfig", "StartWireguard", "NewVtunUDPForwarder",
      "ParseConfig", "StartWireguard", "StartProxy">>

\* C5: in warp-in-warp mode the steps run in the order outer WireGuard
\* (towards endpoints[0]), UDP forwarder (loopback ephemeral port, destination
\* endpoints[1], through the outer stack), inner WireGuard (peer endpoint =
\* the forwarder's local address), mixed proxy (on the inner stack); each
\* runs only after the previous one succeeded, and a failing step is the last
\* one and its error is what RunWarp returns.
C5_WarpInWarpOrder ==
    InScenario("runWarpInWarp") =>
        LET n == Len(Calls) IN
        /\ n <= Len(GoolOrder)
        /\ \A i \in 1..n : Calls[i].op = GoolOrder[i]
        /\ \A i \in 1..n : i < n => Calls[i].err = ""
        /\ (n > 0 /\ Calls[n].err # "") => (Returned /\ ret = Calls[n].err)
        /\ n >= 2 => (Calls[2].hop = "outer" /\ Calls[2].arg = endpoints[1])
        /\ n >= 3 => (Calls[3].hop = "outer" /\ Calls[3].arg = endpoints[2])
        /\ n >= 5 => (Calls[5].hop = "inner" /\ Calls[5].arg = AddrPortString(fwd.addr))
        /\ n >= 6 => (Calls[6].hop = "inner" /\ Calls[6].arg = AddrPortString(opts.Bind))
        /\ fwd.created =>
              /\ dev["outer"].state = "up"
              /\ \A i \in DOMAIN dev["outer"].peers :
                    dev["outer"].peers[i].Endpoint = endpoints[1]
              /\ fwd.via = "outer"
              /\ fwd.bind = [ip |-> "127.0.0.1", port |-> "0"]
              /\ fwd.addr.ip = "127.0.0.1" /\ fwd.addr.port \in EphemeralPorts
              /\ AddrPortString(fwd.dest) = endpoints[2]
        /\ dev["inner"].state # "none" => fwd.created
        /\ \A i \in DOMAIN dev["inner"].peers :
              dev["inner"].peers[i].Endpoint = AddrPortString(fwd.addr)
        /\ proxy.started => (proxy.hop = "inner" /\ dev["inner"].state \in {"up", "down"})
        /\ (Returned /\ ret = "nil") => (n = Len(GoolOrder) /\ proxy.started)

\* C5 witness: warp-in-warp ran all its steps and RunWarp returned nil.
C5_Witness ==
    /\ InScenario("runWarpInWarp")
    /\ Returned /\ ret = "nil"
    /\ dev["outer"].state = "up" /\ fwd.created /\ proxy.started

\* C6: a call of RunWarp never runs two scenarios and the scenario it runs is
\* psiphon if Psiphon options are set, else warp-in-warp if Gool is set, else
\* plain; in plain and warp-in-warp the mixed proxy listens on the caller's
\* bind address; in psiphon mode it listens on an ephemeral loopback port, the
\* address it bound is Psiphon's upstream SOCKS proxy and Psiphon's local
\* SOCKS port is the port of the caller's bind address.
C6_ScenarioAndBind ==
    LET ran == {i \in DOMAIN log : log[i].op \in ScenarioFns} IN
    /\ Cardinality(ran) <= 1
    /\ \A i \in ran :
          log[i].op = IF opts.Psiphon.set THEN "runWarpWithPsiphon"
                      ELSE IF opts.Gool THEN "runWarpInWarp" ELSE "runWarp"
    /\ (pc.fn # "RunWarp" \/ (Returned /\ ret = "nil")) =>
          (Cardinality(ran) = 1 /\ pc.fn \in {"RunWarp", log[1].op})
    /\ (dev # [h \in Hops |-> NoDevice] \/ fwd.created \/ proxy.started \/ psi.built)
          => Cardinality(ran) = 1
    /\ proxy.started =>
          IF opts.Psiphon.set
          THEN /\ proxy.bind = [ip |-> "127.0.0.1", port |-> "0"]
               /\ proxy.addr.ip = "127.0.0.1"
               /\ proxy.addr.port \in EphemeralPorts
          ELSE proxy.bind = opts.Bind /\ proxy.addr = opts.Bind
    /\ psi.built =>
          /\ opts.Psiphon.set /\ proxy.started
          /\ psi.UpstreamProxyURL = <<"socks5://">> \o AddrPortString(proxy.addr)
          /\ psi.LocalSocksProxyPort = opts.Bind.port
          /\ psi.EgressRegion = opts.Psiphon.Country
    /\ ~opts.Psiphon.set => ~psi.built

\* C6 witness: psiphon mode came up on a caller's bind address.
C6_Witness ==
    /\ opts.Psiphon.set /\ Returned /\ ret = "nil"
    /\ psi.started /\ proxy.started /\ opts.Bind.port = "1080"

\* C7: when Psiphon and Gool are both requested, or Psiphon is requested with
\* an empty country, RunWarp returns an error and has had no effect: no
\* identity, no scan, no device, no forwarder, no proxy, no Psiphon tunnel.
C7_RejectedHasNoEffect ==
    (opts.Psiphon.set /\ (opts.Gool \/ opts.Psiphon.Country = "")) =>
        /\ At("RunWarp", "start") \/ (Returned /\ ret \notin {"running", "nil"})
        /\ identities = {}
        /\ scanPc = "idle" /\ scanCtx = "none" /\ available = <<>>
        /\ \A h \in Hops : dev[h] = NoDevice
        /\ fwd = NoFwd /\ proxy = NoProxy /\ psi = NoPsi
        /\ log = <<>> /\ endpoints = <<>>

\* C7 witness: RunWarp has returned for a call asking for Psiphon and Gool.
C7_Witness ==
    /\ opts.Psiphon.set /\ opts.Gool /\ opts.Psiphon.Country # ""
    /\ Returned

\* C8: every single-hop endpoint (plain, psiphon, outer hop of warp-in-warp)
\* is created with MTU 1330 and the inner hop with MTU 1280, whatever MTU the
\* profile INI holds.
C8_MTU ==
    \A h \in Hops :
        dev[h].state # "none" => dev[h].mtu = IF h = "inner" THEN 1280 ELSE 1330

\* C8 witness: both hops of warp-in-warp are up from INI files with other MTUs.
C8_Witness ==
    /\ dev["outer"].state = "up" /\ iniRead["outer"].MTU = 1420
    /\ dev["inner"].state = "up" /\ iniRead["inner"].MTU = 0

\* C9: every peer of an outer or single-hop endpoint has keep-alive 3 and
\* trick = true, every peer of the inner endpoint keep-alive 10 and trick =
\* false, for every peer of the parsed configuration and whatever
\* PersistentKeepalive the INI holds.
C9_PeerSettings ==
    \A h \in Hops :
        /\ dev[h].state \in {"configured", "up", "down"} =>
              Len(dev[h].peers) = Len(iniRead[h].Peers)
        /\ \A i \in DOMAIN dev[h].peers :
              IF h = "inner"
              THEN dev[h].peers[i].KeepAlive = 10 /\ dev[h].peers[i].Trick = FALSE
              ELSE dev[h].peers[i].KeepAlive = 3 /\ dev[h].peers[i].Trick = TRUE

\* C9 witness: both hops are up with two peers each, from INI files that set
\* PersistentKeepalive = 25.
C9_Witness ==
    \A h \in {"outer", "inner"} :
        /\ dev[h].state = "up" /\ Len(dev[h].peers) = 2
        /\ \A i \in 1..2 : iniRead[h].Peers[i].KeepAlive = "25"

\* the scenario has been entered, so the endpoints are in use
EndpointsInUse == log # <<>> \/ At("RunWarp", "switch")

\* C10: with scanning enabled and successful the endpoints RunWarp uses are
\* the first two entries, lowest RTT first, of one snapshot of the available
\* set, in that order; without scanning they are the configured endpoint for
\* both hops; RunScan returns a result only from a snapshot of at least two
\* entries and the result has exactly two.
C10_Endpoints ==
    /\ scanResult # <<>> =>
          /\ Len(ipList) >= 2 /\ Len(scanResult) = 2
          /\ scanResult[1] = ipList[1] /\ scanResult[2] = ipList[2]
          /\ ipList[1].RTT <= ipList[2].RTT
          /\ \A i \in DOMAIN ipList : ipList[1].RTT <= ipList[i].RTT
    /\ ~opts.Scan => (scanResult = <<>> /\ scanPc = "idle")
    /\ EndpointsInUse =>
          /\ opts.Scan => (scanResult # <<>> /\ scanPc = "returned")
          /\ endpoints =
                IF opts.Scan
                THEN <<AddrPortString(ipList[1].AddrPort),
                       AddrPortString(ipList[2].AddrPort)>>
                ELSE <<opts.Endpoint, opts.Endpoint>>
          /\ \A h \in {"single", "outer"} : \A i \in DOMAIN dev[h].peers :
                dev[h].peers[i].Endpoint = endpoints[1]
          /\ fwd.created =>
                fwd.dest = IF opts.Scan THEN ipList[2].AddrPort
                           ELSE [ip |-> opts.Endpoint[1], port |-> opts.Endpoint[3]]

\* C10 witness: a scan returned from a snapshot whose two best entries differ
\* in RTT, and warp-in-warp used both.
C10_Witness ==
    /\ opts.Scan /\ scanResult # <<>>
    /\ ipList[1].RTT < ipList[2].RTT
    /\ IsV6(ipList[2].AddrPort.ip)
    /\ fwd.created /\ dev["inner"].state = "up"

\* what holds of RunScan's returns
ScanReturn ==
    /\ scanPc = "wait" => Len(ipList) < 2
    /\ scanPc = "returned" => scanCtx # "live"
    /\ scanResult # <<>> =>
          /\ scanPc = "returned" /\ Len(scanResult) = 2 /\ Len(ipList) >= 2
    /\ (scanPc = "returned" /\ scanResult = <<>>) =>
          /\ Returned
          /\ ret \in {"failed to read file", "user canceled the operation"}
          /\ ret = "user canceled the operation" =>
                (Len(ipList) < 2 /\ (ctxDone \/ scanCtx = "done"))

\* C11: RunScan always terminates: it returns two results as soon as a poll
\* sees at least two available IPs, otherwise a nil result with an error when
\* the caller's context is cancelled or the two-minute deadline expires; on
\* every return path the context given to the scanner is cancelled.
C11_RunScanTerminates ==
    /\ []ScanReturn
    /\ (scanPc \in {"poll", "wait"}) ~> (scanPc = "returned")

\* C11 witness: RunScan returned its error at the deadline, the caller's
\* context still live, after polls that saw a single available IP.
C11_Witness ==
    /\ scanPc = "returned" /\ ret = "user canceled the operation"
    /\ ~ctxDone /\ scanCtx = "done" /\ Len(ipList) = 1

----------------------------------------------------------------------------
(* wiresocks.NewVtunUDPForwarder *)

\* the caller: runWarpInWarp passes 127.0.0.1:0, endpoints[1], the outer
\* VirtualTun and singleMTU
FwdCaller ==
    [Bind |-> [ip |-> "127.0.0.1", port |-> "8086"],
     Endpoint |-> <<"162.159.192.1", ":", "2408">>,
     Psiphon |-> [set |-> FALSE, Country |-> ""],
     Gool |-> TRUE, Scan |-> FALSE]
fwdMtu == singleMTU

FwdInit ==
    /\ opts = FwdCaller
    /\ WarpStart
    /\ FwdIdle
    /\ EngIdle
    /\ HdlIdle
    /\ CfgIdle
    /\ PsiIdle
    /\ MainIdle
    /\ AccIdle
    /\ DevIdle
    /\ PingIdle

Min(a, b) == IF a < b THEN a ELSE b

\* ResolveUDPAddr, ListenUDP, DialUDP, then the three goroutines are started
FwdNew ==
    /\ fNew = "init"
    /\ \E out \in {"ok", "resolve failed", "listen failed", "dial failed"} :
        /\ fNew' = out
        /\ listener' = IF out \in {"ok", "dial failed"} THEN "open" ELSE "none"
        /\ rconn' = IF out = "ok" THEN "open" ELSE "none"
        /\ wg' = IF out = "ok" THEN 2 ELSE 0
        /\ hostTask' = IF out = "ok" THEN [hostTask EXCEPT !.pc = "select"] ELSE hostTask
        /\ vtunTask' = IF out = "ok" THEN [vtunTask EXCEPT !.pc = "select"] ELSE vtunTask
        /\ closer' = IF out = "ok" THEN "waiting" ELSE "none"
    /\ UNCHANGED <<fCtxDone, hostIn, vtunIn, clientAddr, stored, hostRead, vtunRead,
                   vtunOut, hostOut, dropped, sent>>
    /\ UNCHANGED notFwd

\* the context passed to the forwarder is cancelled
FwdCancel ==
    /\ ~fCtxDone
    /\ fCtxDone' = TRUE
    /\ UNCHANGED <<fNew, listener, rconn, hostIn, vtunIn, clientAddr, stored,
                   hostTask, vtunTask, wg, closer, hostRead, vtunRead, vtunOut,
                   hostOut, dropped, sent>>
    /\ UNCHANGED notFwd

\* a datagram arrives at the host listener from some local sender
HostSend ==
    /\ listener = "open"
    /\ sent < MaxDatagrams
    /\ \E a \in ClientAddrs, n \in DatagramLens :
        hostIn' = Append(hostIn, [id |-> sent + 1, src |-> a, len |-> n])
    /\ sent' = sent + 1
    /\ UNCHANGED <<fNew, fCtxDone, listener, rconn, vtunIn, clientAddr, stored,
                   hostTask, vtunTask, wg, closer, hostRead, vtunRead, vtunOut,
                   hostOut, dropped>>
    /\ UNCHANGED notFwd

\* a datagram arrives at the virtual-stack socket from the remote endpoint
RemoteSend ==
    /\ rconn = "open"
    /\ sent < MaxDatagrams
    /\ \E n \in DatagramLens :
        vtunIn' = Append(vtunIn, [id |-> sent + 1, src |-> DestAddr, len |-> n])
    /\ sent' = sent + 1
    /\ UNCHANGED <<fNew, fCtxDone, listener, rconn, hostIn, clientAddr, stored,
                   hostTask, vtunTask, wg, closer, hostRead, vtunRead, vtunOut,
                   hostOut, dropped>>
    /\ UNCHANGED notFwd

(* goroutine 1: host listener -> virtual-stack socket *)

\* select { case <-ctx.Done(): wg.Done(); return;  default: ... }
HostSelect ==
    /\ hostTask.pc = "select"
    /\ IF fCtxDone
       THEN hostTask' = [hostTask EXCEPT !.pc = "done"] /\ wg' = wg - 1
       ELSE hostTask' = [hostTask EXCEPT !.pc = "read"] /\ wg' = wg
    /\ UNCHANGED <<fNew, fCtxDone, listener, rconn, hostIn, vtunIn, clientAddr,
                   stored, vtunTask, closer, hostRead, vtunRead, vtunOut, hostOut,
                   dropped, sent>>
    /\ UNCHANGED notFwd

\* n, cAddr, err := listener.ReadFrom(buffer): blocks until a datagram is
\* queued; at most len(buffer) = mtu bytes of it are kept
HostRead ==
    /\ hostTask.pc = "read"
    /\ hostIn # <<>>
    /\ LET d == [Head(hostIn) EXCEPT !.len = Min(Head(hostIn).len, fwdMtu)] IN
        /\ hostTask' = [hostTask EXCEPT !.pc = "assign", !.dg = d]
        /\ hostRead' = Append(hostRead, d)
    /\ hostIn' = Tail(hostIn)
    /\ UNCHANGED <<fNew, fCtxDone, listener, rconn, vtunIn, clientAddr, stored,
                   vtunTask, wg, closer, vtunRead, vtunOut, hostOut, dropped, sent>>
    /\ UNCHANGED notFwd

\* ReadFrom returns an error: continue
HostReadErr ==
    /\ hostTask.pc = "read"
    /\ hostTask' = [hostTask EXCEPT !.pc = "select"]
    /\ UNCHANGED <<fNew, fCtxDone, listener, rconn, hostIn, vtunIn, clientAddr,
                   stored, vtunTask, wg, closer, hostRead, vtunRead, vtunOut,
                   hostOut, dropped, sent>>
    /\ UNCHANGED notFwd

\* clientAddr = cAddr.(*net.UDPAddr): the value clientAddr holds after a
\* datagram from `src`
NewClientAddr_FirstOnly(old, src) == IF old = NoAddr THEN src ELSE old
NewClientAddr(old, src) == src

HostAssign ==
    /\ hostTask.pc = "assign"
    /\ clientAddr' = NewClientAddr(clientAddr, hostTask.dg.src)
    /\ stored' = stored \cup {clientAddr'}
    /\ hostTask' = [hostTask EXCEPT !.pc = "write"]
    /\ UNCHANGED <<fNew, fCtxDone, listener, rconn, hostIn, vtunIn, vtunTask, wg,
                   closer, hostRead, vtunRead, vtunOut, hostOut, dropped, sent>>
    /\ UNCHANGED notFwd

\* rconn.WriteTo(buffer[:n], destAddr)
HostWrite ==
    /\ hostTask.pc = "write"
    /\ vtunOut' = Append(vtunOut, [id |-> hostTask.dg.id, to |-> DestAddr,
                                   len |-> hostTask.dg.len])
    /\ hostTask' = [hostTask EXCEPT !.pc = "select", !.dg = NoDatagram]
    /\ UNCHANGED <<fNew, fCtxDone, listener, rconn, hostIn, vtunIn, clientAddr,
                   stored, vtunTask, wg, closer, hostRead, vtunRead, hostOut,
                   dropped, sent>>
    /\ UNCHANGED notFwd

(* goroutine 2: virtual-stack socket -> host listener *)

VtunSelect ==
    /\ vtunTask.pc = "select"
    /\ IF fCtxDone
       THEN vtunTask' = [vtunTask EXCEPT !.pc = "done"] /\ wg' = wg - 1
       ELSE vtunTask' = [vtunTask EXCEPT !.pc = "read"] /\ wg' = wg
    /\ UNCHANGED <<fNew, fCtxDone, listener, rconn, hostIn, vtunIn, clientAddr,
                   stored, hostTask, closer, hostRead, vtunRead, vtunOut, hostOut,
                   dropped, sent>>
    /\ UNCHANGED notFwd

\* n, _, err := rconn.ReadFrom(buffer)
VtunRead ==
    /\ vtunTask.pc = "read"
    /\ vtunIn # <<>>
    /\ LET d == [Head(vtunIn) EXCEPT !.len = Min(Head(vtunIn).len, fwdMtu)] IN
        /\ vtunTask' = [vtunTask EXCEPT !.pc = "reply", !.dg = d]
        /\ vtunRead' = Append(vtunRead, d)
    /\ vtunIn' = Tail(vtunIn)
    /\ UNCHANGED <<fNew, fCtxDone, listener, rconn, hostIn, clientAddr, stored,
                   hostTask, wg, closer, hostRead, vtunOut, hostOut, dropped, sent>>
    /\ UNCHANGED notFwd

VtunReadErr ==
    /\ vtunTask.pc = "read"
    /\ vtunTask' = [vtunTask EXCEPT !.pc = "select"]
    /\ UNCHANGED <<fNew, fCtxDone, listener, rconn, hostIn, vtunIn, clientAddr,
                   stored, hostTask, wg, closer, hostRead, vtunRead, vtunOut,
                   hostOut, dropped, sent>>
    /\ UNCHANGED notFwd

\* clientAddr is written by goroutine 1 and read by goroutine 2 with no
\* synchronisation: a read observes the current value or, the two goroutines
\* being unordered, any value the variable has held (the Go memory model's
\* rule for a racy read of a word-sized variable).
Observable == stored

\* the target of listener.WriteTo(buffer[:n], clientAddr) when the read of
\* clientAddr gave `seen`
ReplyTarget(seen) == seen

\* if clientAddr != nil { listener.WriteTo(buffer[:n], clientAddr) }: the
\* condition and the argument each read clientAddr; WriteTo without an
\* address fails and the error is ignored.
VtunReply ==
    /\ vtunTask.pc = "reply"
    /\ \E c \in Observable, a \in Observable :
        IF c # NoAddr /\ a # NoAddr
        THEN /\ hostOut' = Append(hostOut,
                    [id |-> vtunTask.dg.id, to |-> ReplyTarget(a),
                     len |-> vtunTask.dg.len, read |-> Len(hostRead)])
             /\ dropped' = dropped
        ELSE /\ dropped' = Append(dropped,
                    [id |-> vtunTask.dg.id, read |-> Len(hostRead)])
             /\ hostOut' = hostOut
    /\ vtunTask' = [vtunTask EXCEPT !.pc = "select", !.dg = NoDatagram]
    /\ UNCHANGED <<fNew, fCtxDone, listener, rconn, hostIn, vtunIn, clientAddr,
                   stored, hostTask, wg, closer, hostRead, vtunRead, vtunOut, sent>>
    /\ UNCHANGED notFwd

\* goroutine 3: wg.Wait(); listener.Close(); rconn.Close()
FwdClose ==
    /\ closer = "waiting"
    /\ wg = 0
    /\ closer' = "done"
    /\ listener' = "closed"
    /\ rconn' = "closed"
    /\ UNCHANGED <<fNew, fCtxDone, hostIn, vtunIn, clientAddr, stored, hostTask,
                   vtunTask, wg, hostRead, vtunRead, vtunOut, hostOut, dropped, sent>>
    /\ UNCHANGED notFwd

HostTaskStep == HostSelect \/ HostRead \/ HostAssign \/ HostWrite
VtunTaskStep == VtunSelect \/ VtunRead \/ VtunReply

FwdNext ==
    \/ FwdNew
    \/ FwdCancel
    \/ HostSend
    \/ RemoteSend
    \/ HostTaskStep
    \/ HostReadErr
    \/ VtunTaskStep
    \/ VtunReadErr
    \/ FwdClose

FwdSpec == FwdInit /\ [][FwdNext]_vars

\* The Go scheduler runs every runnable goroutine; a goroutine inside
\* ReadFrom is runnable only when a datagram is queued.  Nothing is assumed
\* of datagram arrivals, read errors or the cancellation.
FwdFairSpec ==
    /\ FwdSpec
    /\ WF_vars(FwdNew)
    /\ WF_vars(HostTaskStep)
    /\ WF_vars(VtunTaskStep)
    /\ WF_vars(FwdClose)

----------------------------------------------------------------------------
(* Properties of the UDP forwarder *)

FwdStopped ==
    /\ hostTask.pc = "done" /\ vtunTask.pc = "done"
    /\ listener = "closed" /\ rconn = "closed"

\* C2: once the forwarder's context is cancelled, both forwarding goroutines
\* eventually exit and both sockets are eventually closed, also when no
\* further datagram arrives on either socket after the cancellation.
C2_StopsOnCancel ==
    (fNew = "ok" /\ fCtxDone) ~> FwdStopped

\* the source addresses of the first n datagrams read from the host listener
SourcesRead(n) == {hostRead[j].src : j \in 1..n}
\* how many of the datagrams read have had their source stored in clientAddr
Assigned == Len(hostRead) - (IF hostTask.pc = "assign" THEN 1 ELSE 0)

\* C3 as claimed: every reply read from the virtual-stack socket is sent to
\* the source address of the first datagram received on the host listener.
C3_FirstSenderFixed ==
    \A i \in DOMAIN hostOut : hostOut[i].to = hostRead[1].src

\* C3 as amended: the client address is overwritten by every datagram received
\* on the host listener, so it is the source of the latest one stored, and
\* every reply is sent to the source address of a host datagram received
\* before the reply was written (not necessarily the first).
C3_LatestSender ==
    /\ clientAddr = IF Assigned = 0 THEN NoAddr ELSE hostRead[Assigned].src
    /\ \A i \in DOMAIN hostOut : hostOut[i].to \in SourcesRead(hostOut[i].read)

\* C3 witness: a reply went to the second sender after datagrams from two
\* different sources had been received.
C3_Witness ==
    /\ Len(hostRead) >= 2 /\ hostRead[1].src # hostRead[2].src
    /\ \E i \in DOMAIN hostOut : hostOut[i].to = hostRead[2].src

\* the datagrams of `seq` whose id is in `ids`, in order
RECURSIVE Pick(_, _)
Pick(seq, ids) ==
    IF seq = <<>> THEN <<>>
    ELSE IF Head(seq).id \in ids THEN <<Head(seq).id>> \o Pick(Tail(seq), ids)
         ELSE Pick(Tail(seq), ids)
Ids(seq) == {seq[i].id : i \in DOMAIN seq}
IdSeq(seq) == [i \in DOMAIN seq |-> seq[i].id]

\* C4: while the context is live nothing is lost or reordered inside the
\* forwarder: the datagrams written to the virtual-stack socket are those read
\* from the host listener, in the order read, each addressed to the resolved
\* destination; the datagrams written to the host listener are those read
\* from the virtual-stack socket, in the order read; and a datagram from the
\* remote side is dropped only if no host datagram had been received.
C4_NoLossNoReorder ==
    ~fCtxDone =>
        /\ IdSeq(vtunOut) =
              SubSeq(IdSeq(hostRead), 1,
                     Len(hostRead) - (IF hostTask.pc \in {"assign", "write"} THEN 1 ELSE 0))
        /\ \A i \in DOMAIN vtunOut : vtunOut[i].to = DestAddr
        /\ IdSeq(hostOut) = Pick(vtunRead, Ids(hostOut))
        /\ Ids(hostOut) \cup Ids(dropped) =
              Ids(vtunRead) \ (IF vtunTask.pc = "reply" THEN {vtunTask.dg.id} ELSE {})
        /\ \A i \in DOMAIN dropped : dropped[i].read = 0

----------------------------------------------------------------------------
(* engine.Engine.Run: the scan engine's loop *)

\* what the generator's NextBatch can yield for the candidates `c`: up to
\* MaxBatch distinct addresses, none when there is no candidate
Batches(c) ==
    {b \in UNION {[1..n -> c] : n \in 0..MaxBatch} :
        /\ \A i, j \in DOMAIN b : i # j => b[i] # b[j]
        /\ c # {} => Len(b) >= 1}

\* Ping.DoPing(ip): an IPInfo for the probed address, or the zero IPInfo and
\* an error
NoInfo == [AddrPort |-> NoAddrPort, RTT |-> 0]
DoPing(ip) ==
    {[ok |-> FALSE, info |-> NoInfo]} \cup
    {[ok |-> TRUE, info |-> i] : i \in {x \in IPInfos : x.AddrPort.ip = ip}}

EngInit ==
    /\ opts = [Bind |-> [ip |-> "127.0.0.1", port |-> "8086"],
               Endpoint |-> <<"162.159.192.1", ":", "2408">>,
               Psiphon |-> [set |-> FALSE, Country |-> ""],
               Gool |-> FALSE, Scan |-> TRUE]
    /\ WarpStart
    /\ FwdIdle
    /\ EngStart
    /\ eCidrs \in {{}, Candidates}
    /\ HdlIdle
    /\ CfgIdle
    /\ PsiIdle
    /\ MainIdle
    /\ AccIdle
    /\ DevIdle
    /\ PingIdle

\* scanner.Run(ctx) starts Engine.Run
EngRun ==
    /\ ePc = "init"
    /\ ePc' = "select"
    /\ UNCHANGED <<eCtx, eCidrs, eSignal, eBatch, eIdx, eRound, eErrSeen, available>>
    /\ UNCHANGED notEng

\* the context given to the engine is cancelled
EngCancel ==
    /\ ~eCtx
    /\ eCtx' = TRUE
    /\ UNCHANGED <<ePc, eCidrs, eSignal, eBatch, eIdx, eRound, eErrSeen, available>>
    /\ UNCHANGED notEng

\* the queue signals on ipQueue.available that it needs more
QueueSignal ==
    /\ ePc \notin {"init", "returned"}
    /\ ~eSignal
    /\ eSignal' = TRUE
    /\ UNCHANGED <<ePc, eCtx, eCidrs, eBatch, eIdx, eRound, eErrSeen, available>>
    /\ UNCHANGED notEng

\* outer select, case <-ctx.Done(): return
EngSelectDone ==
    /\ ePc = "select"
    /\ eCtx
    /\ ePc' = "returned"
    /\ UNCHANGED <<eCtx, eCidrs, eSignal, eBatch, eIdx, eRound, eErrSeen, available>>
    /\ UNCHANGED notEng

\* outer select, case <-e.ipQueue.available (taken also beside a ready
\* ctx.Done(): select picks among the ready cases)
EngSelectSignal ==
    /\ ePc = "select"
    /\ eSignal
    /\ eSignal' = FALSE
    /\ ePc' = "pull"
    /\ eRound' = [eRound EXCEPT !.sig = TRUE]
    /\ UNCHANGED <<eCtx, eCidrs, eBatch, eIdx, eErrSeen, available>>
    /\ UNCHANGED notEng

\* outer select, default: only when no other case is ready
EngSelectDefault_Unguarded ==
    /\ ePc = "select"
    /\ ~eCtx
    /\ ePc' = "expire"
    /\ eRound' = [eRound EXCEPT !.pend = eSignal]
    /\ UNCHANGED <<eCtx, eCidrs, eSignal, eBatch, eIdx, eErrSeen, available>>
    /\ UNCHANGED notEng
EngSelectDefault ==
    /\ ePc = "select"
    /\ ~eCtx
    /\ ~eSignal
    /\ ePc' = "expire"
    /\ eRound' = [eRound EXCEPT !.pend = eSignal]
    /\ UNCHANGED <<eCtx, eCidrs, eSignal, eBatch, eIdx, eErrSeen, available>>
    /\ UNCHANGED notEng

\* batch, err := e.generator.NextBatch(); on an error the engine starts its
\* two-second time.Sleep
EngNextBatch_ReturnOnError ==
    /\ ePc = "pull"
    /\ \E failed \in BOOLEAN :
        IF failed
        THEN /\ ePc' = "returned"
             /\ eRound' = [eRound EXCEPT !.genErr = TRUE]
             /\ eErrSeen' = TRUE
             /\ UNCHANGED <<eBatch, eIdx>>
        ELSE \E b \in Batches(eCidrs) :
             /\ ePc' = "batch"
             /\ eBatch' = b
             /\ eIdx' = 1
             /\ eRound' = [eRound EXCEPT !.pulls = @ + 1]
             /\ UNCHANGED eErrSeen
    /\ UNCHANGED <<eCtx, eCidrs, eSignal, available>>
    /\ UNCHANGED notEng
EngNextBatch ==
    /\ ePc = "pull"
    /\ \E failed \in BOOLEAN :
        IF failed
        THEN /\ ePc' = "backoff"
             /\ eRound' = [eRound EXCEPT !.genErr = TRUE]
             /\ eErrSeen' = TRUE
             /\ UNCHANGED <<eBatch, eIdx>>
        ELSE \E b \in Batches(eCidrs) :
             /\ ePc' = "batch"
             /\ eBatch' = b
             /\ eIdx' = 1
             /\ eRound' = [eRound EXCEPT !.pulls = @ + 1]
             /\ UNCHANGED eErrSeen
    /\ UNCHANGED <<eCtx, eCidrs, eSignal, available>>
    /\ UNCHANGED notEng

\* time.Sleep(2 * time.Second) is over: continue
EngBackoffDone ==
    /\ ePc = "backoff"
    /\ ePc' = "select"
    /\ eRound' = NoRound
    /\ UNCHANGED <<eCtx, eCidrs, eSignal, eBatch, eIdx, eErrSeen, available>>
    /\ UNCHANGED notEng

\* inner select, case <-ctx.Done(): return
EngBatchCancel ==
    /\ ePc = "batch"
    /\ eIdx <= Len(eBatch)
    /\ eCtx
    /\ ePc' = "returned"
    /\ UNCHANGED <<eCtx, eCidrs, eSignal, eBatch, eIdx, eRound, eErrSeen, available>>
    /\ UNCHANGED notEng

\* inner select, default: e.ping(ip) is called
EngProbeStart ==
    /\ ePc = "batch"
    /\ eIdx <= Len(eBatch)
    /\ ~eCtx
    /\ ePc' = "probing"
    /\ UNCHANGED <<eCtx, eCidrs, eSignal, eBatch, eIdx, eRound, eErrSeen, available>>
    /\ UNCHANGED notEng

\* e.ping(ip) returns (it is given no context): a success is enqueued, a
\* failure is logged, and the for loop goes on
EngProbeDone ==
    /\ ePc = "probing"
    /\ \E r \in DoPing(eBatch[eIdx]) :
        /\ eRound' = [eRound EXCEPT
                        !.probed = Append(@, [ip |-> eBatch[eIdx], ok |-> r.ok,
                                              info |-> r.info, was |-> available]),
                        !.enq = IF r.ok THEN Append(@, r.info) ELSE @]
        /\ available' = IF r.ok THEN Enqueue(available, r.info) ELSE available
    /\ eIdx' = eIdx + 1
    /\ ePc' = "batch"
    /\ UNCHANGED <<eCtx, eCidrs, eSignal, eBatch, eErrSeen>>
    /\ UNCHANGED notEng

\* the for loop over the batch is over: next iteration of the outer loop
EngBatchDone ==
    /\ ePc = "batch"
    /\ eIdx > Len(eBatch)
    /\ ePc' = "select"
    /\ eRound' = NoRound
    /\ eBatch' = <<>>
    /\ eIdx' = 1
    /\ UNCHANGED <<eCtx, eCidrs, eSignal, eErrSeen, available>>
    /\ UNCHANGED notEng

\* default: e.ipQueue.Expire(), then time.Sleep(200 * time.Millisecond) starts
EngExpire ==
    /\ ePc = "expire"
    /\ \E old \in SUBSET DOMAIN available : available' = Expire(available, old)
    /\ ePc' = "idle"
    /\ eRound' = [eRound EXCEPT !.swept = TRUE]
    /\ UNCHANGED <<eCtx, eCidrs, eSignal, eBatch, eIdx, eErrSeen>>
    /\ UNCHANGED notEng

\* the 200 ms sleep is over: next iteration
EngIdleDone ==
    /\ ePc = "idle"
    /\ ePc' = "select"
    /\ eRound' = NoRound
    /\ UNCHANGED <<eCtx, eCidrs, eSignal, eBatch, eIdx, eErrSeen, available>>
    /\ UNCHANGED notEng

EngStep ==
    \/ EngRun
    \/ EngSelectDone
    \/ EngSelectSignal
    \/ EngSelectDefault
    \/ EngNextBatch
    \/ EngBackoffDone
    \/ EngBatchCancel
    \/ EngProbeStart
    \/ EngProbeDone
    \/ EngBatchDone
    \/ EngExpire
    \/ EngIdleDone

EngNext ==
    \/ EngStep
    \/ EngCancel
    \/ QueueSignal

EngSpec == EngInit /\ [][EngNext]_vars

\* The Go scheduler runs the engine's goroutine, sleeps end and probes return
\* (each probe has its own timeout).  Nothing is assumed of the cancellation
\* or of the queue's signals.
EngFairSpec ==
    /\ EngSpec
    /\ WF_vars(EngStep)

----------------------------------------------------------------------------
(* claims about the scan engine *)

\* what one iteration of the loop has done so far
RoundShape ==
    /\ eRound.pulls <= 1
    /\ eRound.pulls = 1 => eRound.sig
    /\ ePc \in {"batch", "probing"} =>
          /\ eRound.sig /\ eRound.pulls = 1 /\ ~eRound.swept
          /\ Len(eRound.probed) = eIdx - 1
          /\ \A i \in DOMAIN eRound.probed : eRound.probed[i].ip = eBatch[i]
          /\ eRound.enq = SelectSeq([i \in DOMAIN eRound.probed |->
                                        eRound.probed[i].info],
                                    LAMBDA x : x # NoInfo)
    /\ ePc \in {"expire", "idle"} =>
          /\ ~eRound.sig /\ ~eRound.pend
          /\ eRound.pulls = 0 /\ eRound.probed = <<>>
    /\ ePc = "idle" => eRound.swept

\* one step of the loop, as the iteration prescribes it
RoundStep ==
    \* a probe's result: enqueued when it succeeded, skipped when it failed,
    \* and the batch goes on with the next address either way
    /\ ePc = "probing" =>
          /\ ePc' \in {"probing", "batch"}
          /\ ePc' = "batch" =>
                /\ eIdx' = eIdx + 1 /\ eBatch' = eBatch
                /\ LET r == eRound'.probed[eIdx] IN
                      /\ r.ip = eBatch[eIdx]
                      /\ r.ok => available' = Enqueue(available, r.info)
                      /\ ~r.ok => available' = available
    \* with a live context the batch ends only when every address was probed
    /\ (ePc = "batch" /\ ePc' \notin {"batch", "probing"}) =>
          \/ eCtx /\ ePc' = "returned"
          \/ /\ ePc' = "select"
             /\ Len(eRound.probed) = Len(eBatch)
    \* the sweep is entered only with no signal pending, and is followed by
    \* the idle
    /\ (ePc = "select" /\ ePc' = "expire") => ~eSignal
    /\ ePc = "expire" => ePc' \in {"expire", "idle"}
    \* a pending signal seen by the select is consumed by exactly one pull
    /\ (ePc = "select" /\ ePc' = "pull") => (eSignal /\ ~eSignal')

\* C12: in each iteration of the engine loop with a live context, a signal
\* from the queue makes the engine pull exactly one batch and probe each of
\* its addresses once, in batch order; a successful probe is enqueued and a
\* failed one is skipped without aborting the rest of the batch; the
\* expiration sweep followed by the idle happens only in an iteration where
\* no signal is pending.
C12_EngineRound ==
    /\ []RoundShape
    /\ [][RoundStep]_vars

C12_Witness ==
    /\ ~eCtx
    /\ ePc = "batch" /\ Len(eBatch) = 2 /\ eIdx = 3
    /\ ~eRound.probed[1].ok
    /\ eRound.probed[2].ok
    /\ \E i \in DOMAIN available : available[i] = eRound.probed[2].info

\* C13: once the context is cancelled the engine leaves the back-off, the
\* idle and a probe in progress only by returning, and starts no probe.
C13_CancelAtEveryAwait ==
    [][eCtx => /\ ePc \in {"backoff", "idle", "probing"} =>
                     ePc' \in {ePc, "returned"}
               /\ ePc' = "probing" => ePc = "probing"]_vars

\* the engine returns only on a cancelled context, and a generator error
\* sends it to the back-off with nothing probed
BackoffShape ==
    /\ ePc = "returned" => eCtx
    /\ ePc = "backoff" =>
          /\ eRound.genErr /\ eRound.pulls = 0 /\ eRound.probed = <<>>

C15_EmptyCidrsTerminate ==
    (eCidrs = {} /\ ePc = "init") ~> (ePc = "returned" \/ eCtx)

----------------------------------------------------------------------------
(* claims about the available set *)

\* at most capacity entries, sorted by RTT ascending, no address twice
QueueShape(q) ==
    /\ Len(q) <= QueueCap
    /\ \A i, j \in DOMAIN q :
          i < j => (q[i].RTT <= q[j].RTT /\ q[i].AddrPort # q[j].AddrPort)

\* C16: whatever enqueues and expiration sweeps have happened, the available
\* set and every snapshot read from it hold at most capacity entries, are
\* sorted by RTT ascending and hold no address twice.
C16_AvailableSet ==
    /\ QueueShape(available)
    /\ QueueShape(ipList)

\* a snapshot was read, and by enqueues and sweeps since then the set has
\* filled up with results for other addresses
C16_Witness ==
    /\ scanPc = "wait" /\ Len(ipList) = 1
    /\ Len(available) = QueueCap
    /\ \A i \in DOMAIN available : available[i].AddrPort # ipList[1].AddrPort

Entries(q) == {q[i] : i \in DOMAIN q}
MaxRTT(q) == CHOOSE m \in {e.RTT : e \in Entries(q)} :
                \A e \in Entries(q) : e.RTT <= m

\* the insertion rules, as a relation between the set before and after
EnqueueRules(q, info, q2) ==
    IF \E e \in Entries(q) : e.AddrPort = info.AddrPort
    THEN q2 = q
    ELSE IF Len(q) < QueueCap
    THEN Entries(q2) = Entries(q) \cup {info} /\ Len(q2) = Len(q) + 1
    ELSE IF info.RTT < MaxRTT(q)
    THEN /\ Len(q2) = Len(q)
         /\ \E e \in Entries(q) :
               /\ e.RTT = MaxRTT(q)
               /\ Entries(q2) = (Entries(q) \ {e}) \cup {info}
    ELSE q2 = q

\* C17: a probe result is inserted when the set is below capacity; into a
\* full set it is inserted only if its RTT is lower than the largest RTT in
\* the set, and the entry with the largest RTT is then evicted; a result for
\* an address already in the set leaves the set unchanged.
C17_InsertionRules ==
    [][(ePc = "probing" /\ ePc' = "batch" /\ eRound'.probed[eIdx].ok) =>
          EnqueueRules(available, eRound'.probed[eIdx].info, available')]_vars

\* one batch in which a result was inserted into a full set, evicting the
\* slowest entry, and another was ignored for its address being in the set
C17_Witness ==
    /\ ePc = "batch"
    /\ \E i, j \in DOMAIN eRound.probed :
        LET a == eRound.probed[i]
            b == eRound.probed[j] IN
        /\ a.ok /\ Len(a.was) = QueueCap
        /\ a.info \notin Entries(a.was) /\ a.info \in Entries(available)
        /\ b.ok
        /\ \E e \in Entries(b.was) :
              e.AddrPort = b.info.AddrPort /\ e.RTT # b.info.RTT

----------------------------------------------------------------------------
(* VirtualTun.generalHandler: one proxied connection *)

HdlInit ==
    /\ opts = [Bind |-> [ip |-> "127.0.0.1", port |-> "8086"],
               Endpoint |-> <<"162.159.192.1", ":", "2408">>,
               Psiphon |-> [set |-> FALSE, Country |-> ""],
               Gool |-> FALSE, Scan |-> FALSE]
    /\ WarpStart
    /\ FwdIdle
    /\ EngIdle
    /\ CfgIdle
    /\ PsiIdle
    /\ MainIdle
    /\ AccIdle
    /\ DevIdle
    /\ PingIdle
    /\ HdlStart
    /\ hLeft \in [Dirs -> 0..MaxChunks]

\* conn, err := vt.Tnet.Dial(...): on an error the handler returns it; else
\* the channel is made and both copying goroutines are started
generalHandler ==
    /\ hPc = "idle"
    /\ \E ok \in BOOLEAN :
        IF ok
        THEN /\ hPc' = "wait"
             /\ hOpen' = [hOpen EXCEPT !.conn = TRUE]
             /\ hCopy' = [d \in Dirs |-> [pc |-> "copy", err |-> "none"]]
             /\ hRet' = hRet
        ELSE /\ hPc' = "returned"
             /\ hRet' = "dial failed"
             /\ UNCHANGED <<hOpen, hCopy>>
    /\ UNCHANGED <<hLeft, hGot, hDone, hLogged>>
    /\ UNCHANGED notHdl

\* io.Copy moves one chunk from its source to its destination
CopyChunk(d) ==
    /\ hCopy[d].pc = "copy"
    /\ hOpen.conn /\ hOpen.req
    /\ hLeft[d] > 0
    /\ hLeft' = [hLeft EXCEPT ![d] = @ - 1]
    /\ hGot' = [hGot EXCEPT ![d] = @ + 1]
    /\ UNCHANGED <<hPc, hOpen, hCopy, hDone>>
    /\ UNCHANGED <<hLogged, hRet>>
    /\ UNCHANGED notHdl

\* io.Copy reads end-of-stream from its source and returns nil
CopyEOF(d) ==
    /\ hCopy[d].pc = "copy"
    /\ hOpen.conn /\ hOpen.req
    /\ hLeft[d] = 0
    /\ hCopy' = [hCopy EXCEPT ![d] = [pc |-> "send", err |-> "nil"]]
    /\ UNCHANGED <<hPc, hOpen, hLeft, hGot, hDone>>
    /\ UNCHANGED <<hLogged, hRet>>
    /\ UNCHANGED notHdl

\* io.Copy fails on a connection that has been closed
CopyClosed(d) ==
    /\ hCopy[d].pc = "copy"
    /\ ~(hOpen.conn /\ hOpen.req)
    /\ hCopy' = [hCopy EXCEPT ![d] = [pc |-> "send", err |-> "closed"]]
    /\ UNCHANGED <<hPc, hOpen, hLeft, hGot, hDone>>
    /\ UNCHANGED <<hLogged, hRet>>
    /\ UNCHANGED notHdl

\* io.Copy returns the error of a read or a write that failed, for
\* instance on a connection the other side has reset
CopyFail(d) ==
    /\ hCopy[d].pc = "copy"
    /\ hOpen.conn /\ hOpen.req
    /\ hCopy' = [hCopy EXCEPT ![d] = [pc |-> "send", err |-> "reset " \o d]]
    /\ UNCHANGED <<hPc, hOpen, hLeft, hGot, hDone, hLogged, hRet>>
    /\ UNCHANGED notHdl

\* done <- err, and the goroutine ends
CopySend(d) ==
    /\ hCopy[d].pc = "send"
    /\ Len(hDone) < 1
    /\ hDone' = Append(hDone, hCopy[d].err)
    /\ hCopy' = [hCopy EXCEPT ![d].pc = "exit"]
    /\ UNCHANGED <<hPc, hOpen, hLeft, hGot>>
    /\ UNCHANGED <<hLogged, hRet>>
    /\ UNCHANGED notHdl

\* err = <-done: one of the copy operations has finished
HdlFirstDone ==
    /\ hPc = "wait"
    /\ hDone # <<>>
    /\ hDone' = Tail(hDone)
    /\ hPc' = "close"
    /\ hLogged' = IF Head(hDone) # "nil" THEN Append(hLogged, Head(hDone)) ELSE hLogged
    /\ UNCHANGED <<hOpen, hLeft, hGot, hCopy, hRet>>
    /\ UNCHANGED notHdl

\* conn.Close(); req.Conn.Close()
HdlClose ==
    /\ hPc = "close"
    /\ hOpen' = [conn |-> FALSE, req |-> FALSE]
    /\ hPc' = "wait2"
    /\ UNCHANGED <<hLeft, hGot, hCopy, hDone>>
    /\ UNCHANGED <<hLogged, hRet>>
    /\ UNCHANGED notHdl

\* <-done, return nil (the deferred Close calls find both closed)
HdlSecondDone ==
    /\ hPc = "wait2"
    /\ hDone # <<>>
    /\ hDone' = Tail(hDone)
    /\ hPc' = "returned"
    /\ hRet' = "nil"
    /\ UNCHANGED <<hOpen, hLeft, hGot, hCopy, hLogged>>
    /\ UNCHANGED notHdl

HdlNext ==
    \/ generalHandler
    \/ \E d \in Dirs : CopyChunk(d)
    \/ \E d \in Dirs : CopyEOF(d)
    \/ \E d \in Dirs : CopyClosed(d)
    \/ \E d \in Dirs : CopyFail(d)
    \/ \E d \in Dirs : CopySend(d)
    \/ HdlFirstDone
    \/ HdlClose
    \/ HdlSecondDone

HdlSpec == HdlInit /\ [][HdlNext]_vars

\* C18: the handler tears the two connections down only when both directions
\* have reached end-of-stream; until then the direction that has not ended
\* keeps carrying data.
C18_HalfCloseThenTeardown ==
    (/\ hPc \in {"wait", "close", "wait2"}
     /\ ~(hOpen.conn /\ hOpen.req)
     /\ hLogged = <<>>) =>
        \A d \in Dirs : hLeft[d] = 0

----------------------------------------------------------------------------
(* ParseConfig and the request StartWireguard writes, as functions of their
   inputs *)

\* a text the model keeps in parts (host, ":", port), as one string
RECURSIVE Join(_)
Join(parts) == IF parts = <<>> THEN "" ELSE Head(parts) \o Join(Tail(parts))

\* fmt.Sprintf's %d of a number that is not negative, and its %t
RECURSIVE Itoa(_)
Itoa(n) ==
    IF n < 10 THEN CharAt("0123456789", n + 1)
    ELSE Itoa(n \div 10) \o CharAt("0123456789", (n % 10) + 1)
FormatBool(b) == IF b THEN "true" ELSE "false"

\* the request buffer of StartWireguard
IpcRequest(c) ==
    LET allowed(p) == Join([j \in DOMAIN p.AllowedIPs |->
                               "allowed_ip=" \o p.AllowedIPs[j] \o "\n"])
        peer(p) ==
            "public_key=" \o p.PublicKey \o "\n"
            \o "persistent_keepalive_interval=" \o Itoa(p.KeepAlive) \o "\n"
            \o "preshared_key=" \o p.PreSharedKey \o "\n"
            \o "endpoint=" \o Join(p.Endpoint) \o "\n"
            \o "trick=" \o FormatBool(p.Trick) \o "\n"
            \o allowed(p)
    IN "private_key=" \o c.Interface.PrivateKey \o "\n"
       \o Join([i \in DOMAIN c.Peers |-> peer(c.Peers[i])])

\* how the device reads a request: one key=value pair per line
IpcLines(s) ==
    LET ends == {i \in 1..Len(s) : CharAt(s, i) = "\n"}
        nth(j) == CHOOSE i \in ends : Cardinality({k \in ends : k < i}) = j - 1
        line(j) == SubSeq(s, IF j = 1 THEN 1 ELSE nth(j - 1) + 1, nth(j) - 1)
        pair(l) ==
            LET eqs == {i \in 1..Len(l) : CharAt(l, i) = "="} IN
            IF eqs = {} THEN [key |-> l, value |-> ""]
            ELSE LET e == CHOOSE i \in eqs : \A k \in eqs : i <= k
                 IN [key |-> SubSeq(l, 1, e - 1), value |-> SubSeq(l, e + 1, Len(l))]
    IN [j \in 1..Cardinality(ends) |-> pair(line(j))]

\* Inputs: INI files whose keys are any of the key texts, or absent in a
\* peer section, and endpoints as the caller passes them on unchecked.
PeerSections ==
    [KeepAlive : {"25"}, Endpoint : {IniEndpoint},
     PublicKey : {pubKey, KeyBadChar, NoKey},
     PreSharedKey : {NoKey, privKey, KeyShort},
     AllowedIPs : AllowedIPLists]
KeyIniFiles ==
    { [valid |-> TRUE, MTU |-> 1420, PrivateKey |-> k, Peers |-> p] :
        k \in KeyTexts,
        p \in UNION {[1..n -> PeerSections] : n \in 1..MaxPeers} }
\* INI files whose peer sections have or lack the optional PreSharedKey and
\* PersistentKeepalive; the keep-alive texts are decimal, octal and no number
OptionalSections ==
    [KeepAlive : {NoKey, "25", "010", "2s"},
     Endpoint : {IniEndpoint, <<"188.114.96.1", ":", "500">>},
     PublicKey : {pubKey},
     PreSharedKey : {NoKey, privKey},
     AllowedIPs : {<<"0.0.0.0/0", "::/0">>}]
OptionalIniFiles ==
    { [valid |-> TRUE, MTU |-> 1420, PrivateKey |-> privKey, Peers |-> p] :
        p \in UNION {[1..n -> OptionalSections] : n \in 1..MaxPeers} }
\* Identities as the registration returns them: one peer, the keys in
\* base64.  Only the fields createConf reads are kept.
ProfileIdentities ==
    [PrivateKey : {privKey},
     Config : [Peers : {<<[PublicKey |-> pubKey, Endpoint |-> [Host |-> IniEndpoint]]>>},
               Interface : {[Addresses |-> [V4 |-> "172.16.0.2",
                                            V6 |-> "2606:4700:110:8f81:d551:a0:532e:a2b3"]]}]]

\* warp.createConf(i, path): the entries of the profile it writes, as
\* ParseConfig reads them.  The file has no MTU, PreSharedKey or
\* PersistentKeepalive entry and one [Peer] section, of i.Config.Peers[0].
\* Its DNS and Address entries are left out, as ParseInterface is modelled
\* without them.
createConf(i) ==
    [valid |-> TRUE, MTU |-> 0, PrivateKey |-> i.PrivateKey,
     Peers |-> <<[PublicKey |-> i.Config.Peers[1].PublicKey,
                  PreSharedKey |-> NoKey,
                  KeepAlive |-> NoKey,
                  AllowedIPs |-> <<"0.0.0.0/0", "::/0">>,
                  Endpoint |-> i.Config.Peers[1].Endpoint.Host]>>]
CfgEndpoints ==
    { <<"162.159.192.1", ":", "2408">>,
      <<"162.159.192.1", ":", "2408\npublic_key=" \o ZeroKey>> }

ConfInit ==
    /\ opts = [Bind |-> [ip |-> "127.0.0.1", port |-> "8086"],
               Endpoint |-> <<"162.159.192.1", ":", "2408">>,
               Psiphon |-> [set |-> FALSE, Country |-> ""],
               Gool |-> FALSE, Scan |-> FALSE]
    /\ WarpStart
    /\ FwdIdle
    /\ EngIdle
    /\ HdlIdle
    /\ \/ /\ cPc = "init"
          /\ cId = <<>>
          /\ cIni \in KeyIniFiles \cup OptionalIniFiles
          /\ cEndpoint \in CfgEndpoints
       \/ /\ cPc = "identity"
          /\ cId \in ProfileIdentities
          /\ cIni = <<>>
          /\ cEndpoint \in CfgEndpoints \cup {IniEndpoint}
    /\ cOut = <<>>
    /\ cReq = <<>>
    /\ keyToHex = KeyTable
    /\ PsiIdle
    /\ MainIdle
    /\ AccIdle
    /\ DevIdle
    /\ PingIdle

\* err = createConf(i, path): os.WriteFile writes the profile or fails
ConfCreate ==
    /\ cPc = "identity"
    /\ \E written \in BOOLEAN :
          IF written
          THEN cIni' = createConf(cId) /\ cPc' = "init"
          ELSE cIni' = cIni /\ cPc' = "unwritten"
    /\ UNCHANGED <<cEndpoint, cOut, cReq, cId, keyToHex>>
    /\ UNCHANGED notCfg

\* conf, err := wiresocks.ParseConfig(path, endpoint)
ConfParse ==
    /\ cPc = "init"
    /\ cOut' = ParseConfig(cIni, cEndpoint)
    /\ cPc' = IF cOut'.err THEN "failed" ELSE "parsed"
    /\ UNCHANGED <<cIni, cEndpoint, cReq, cId, keyToHex>>
    /\ UNCHANGED notCfg

\* StartWireguard(ctx, l, conf) writes its request
ConfRequest ==
    /\ cPc = "parsed"
    /\ cReq' = IpcRequest(cOut.conf)
    /\ cPc' = "built"
    /\ UNCHANGED <<cIni, cEndpoint, cOut, cId, keyToHex>>
    /\ UNCHANGED notCfg

ConfNext ==
    \/ ConfCreate
    \/ ConfParse
    \/ ConfRequest

ConfSpec == ConfInit /\ [][ConfNext]_vars

\* the lines of one peer block, after the line that opens it
PeerSettings(p) ==
    {[key |-> "persistent_keepalive_interval", value |-> Itoa(p.KeepAlive)],
     [key |-> "preshared_key", value |-> p.PreSharedKey],
     [key |-> "endpoint", value |-> Join(p.Endpoint)],
     [key |-> "trick", value |-> FormatBool(p.Trick)]}
    \cup {[key |-> "allowed_ip", value |-> p.AllowedIPs[j]] : j \in DOMAIN p.AllowedIPs}

\* C19: in the request StartWireguard writes the private_key line comes
\* first; there is one public_key line per peer, in the peers' order, each
\* with that peer's key; and the lines from peer i's public_key line up to the
\* next public_key line (or the end) are exactly peer i's keep-alive,
\* preshared_key, endpoint, trick and allowed_ip lines.
C19_RequestWellFormed ==
    cPc = "built" =>
        LET L == IpcLines(cReq)
            c == cOut.conf
            opens == {i \in DOMAIN L : L[i].key = "public_key"}
            open(i) == CHOOSE k \in opens : Cardinality({j \in opens : j < k}) = i - 1
            close(i) == IF i < Len(c.Peers) THEN open(i + 1) - 1 ELSE Len(L)
        IN /\ L # <<>>
           /\ L[1] = [key |-> "private_key", value |-> c.Interface.PrivateKey]
           /\ Cardinality(opens) = Len(c.Peers)
           /\ \A i \in DOMAIN c.Peers :
                 /\ i = 1 => open(i) = 2
                 /\ L[open(i)].value = c.Peers[i].PublicKey
                 /\ {L[k] : k \in (open(i) + 1)..close(i)} = PeerSettings(c.Peers[i])
                 /\ close(i) - open(i) = Cardinality(PeerSettings(c.Peers[i]))

\* the key texts that are the base64 of 32 bytes, with the hex of the bytes
ValidKeys ==
    privKey :> "c865de5fb80cc9421998ae502200bbf975f9512512b2442f058890e8b7648972"
    @@ pubKey :> "6e65ce0be17517110c17d77288ad87e7fd5252dcc7d09b95a39d61db03df832a"

\* C20: ParseConfig returns an error and no Configuration when the
\* PrivateKey, or a PublicKey or PreSharedKey that a peer section has, is not
\* the base64 of exactly 32 bytes; every key of a Configuration it returns
\* is the 64-character hex of the 32 bytes its text encodes.
C20_KeysValidated ==
    cPc \in {"failed", "parsed", "built"} =>
        LET held(i) == {n \in {"PublicKey", "PreSharedKey"} : cIni.Peers[i][n] # NoKey}
            bad == \/ cIni.PrivateKey \notin DOMAIN ValidKeys
                   \/ \E i \in DOMAIN cIni.Peers : \E n \in held(i) :
                         cIni.Peers[i][n] \notin DOMAIN ValidKeys
        IN /\ bad => (cOut.err /\ cOut.conf = NoConf)
           /\ ~cOut.err =>
                 /\ cOut.conf.Interface.PrivateKey = ValidKeys[cIni.PrivateKey]
                 /\ Len(cOut.conf.Interface.PrivateKey) = 64
                 /\ \A i \in DOMAIN cIni.Peers : \A n \in held(i) :
                       /\ cOut.conf.Peers[i][n] = ValidKeys[cIni.Peers[i][n]]
                       /\ Len(cOut.conf.Peers[i][n]) = 64

\* the file is rejected for the PreSharedKey of its second peer alone
C20_Witness ==
    /\ cPc = "failed"
    /\ cIni.PrivateKey = privKey
    /\ Len(cIni.Peers) = 2
    /\ cIni.Peers[1].PublicKey = pubKey /\ cIni.Peers[1].PreSharedKey = NoKey
    /\ cIni.Peers[2].PublicKey = pubKey /\ cIni.Peers[2].PreSharedKey = KeyShort

\* the numbers the keep-alive texts of the model stand for
KeepAliveNumbers == "0" :> 0 @@ "25" :> 25 @@ "010" :> 8

\* C21: in a Configuration ParseConfig returns, a peer whose section has no
\* PreSharedKey has the pre-shared key of 32 zero bytes, a peer whose section
\* has no PersistentKeepalive has keep-alive 0, and a peer whose section has
\* one has the value of its own section, whatever the other sections hold.
C21_PeerDefaults ==
    cPc \in {"parsed", "built"} =>
        \A i \in DOMAIN cIni.Peers :
            LET section == cIni.Peers[i]
                peer == cOut.conf.Peers[i]
            IN /\ IF section.PreSharedKey = NoKey
                  THEN /\ Len(peer.PreSharedKey) = 64
                       /\ \A k \in 1..64 : CharAt(peer.PreSharedKey, k) = "0"
                  ELSE peer.PreSharedKey = ValidKeys[section.PreSharedKey]
               /\ peer.KeepAlive =
                     IF section.KeepAlive = NoKey
                     THEN 0
                     ELSE KeepAliveNumbers[section.KeepAlive]

\* the first peer has both settings, the second has neither
C21_Witness ==
    /\ cPc = "parsed"
    /\ Len(cIni.Peers) = 2
    /\ cIni.Peers[1].PreSharedKey = privKey /\ cIni.Peers[1].KeepAlive = "25"
    /\ cIni.Peers[2].PreSharedKey = NoKey /\ cIni.Peers[2].KeepAlive = NoKey
    /\ cOut.conf.Peers[1].KeepAlive = 25
    /\ cOut.conf.Peers[2].KeepAlive = 0

\* C22: every peer of a Configuration ParseConfig returns has a public key
\* of 32 bytes (64 hex digits), whatever the file held, a peer section
\* without a PublicKey entry included.
C22_PublicKeyPresent ==
    cPc \in {"parsed", "built"} =>
        \A i \in DOMAIN cOut.conf.Peers : Len(cOut.conf.Peers[i].PublicKey) = 64

\* C23: a Configuration parsed from the profile createConf wrote for an
\* Identity equals what was written in every field: the private key and the
\* peer's public key encode the same bytes, and the peer's endpoint is the
\* Identity's endpoint host.
C23_RoundTrip ==
    (cPc \in {"parsed", "built"} /\ cId # <<>>) =>
        /\ cOut.conf.Interface.PrivateKey = ValidKeys[cId.PrivateKey]
        /\ Len(cOut.conf.Peers) = Len(cId.Config.Peers)
        /\ \A i \in DOMAIN cId.Config.Peers :
              /\ cOut.conf.Peers[i].PublicKey = ValidKeys[cId.Config.Peers[i].PublicKey]
              /\ cOut.conf.Peers[i].Endpoint = cId.Config.Peers[i].Endpoint.Host

----------------------------------------------------------------------------
(* psiphon.RunPsiphon and psiphon.StartTunnel *)

MaxAttempts == 2      \* failed attempts the history counts

ErrTimeout == "clientlib: tunnel establishment timeout"

PsiInit ==
    /\ opts = [Bind |-> [ip |-> "127.0.0.1", port |-> "8086"],
               Endpoint |-> <<"162.159.192.1", ":", "2408">>,
               Psiphon |-> [set |-> TRUE, Country |-> "JP"],
               Gool |-> FALSE, Scan |-> FALSE]
    /\ WarpStart
    /\ FwdIdle
    /\ EngIdle
    /\ HdlIdle
    /\ CfgIdle
    /\ MainIdle
    /\ AccIdle
    /\ DevIdle
    /\ PingIdle
    /\ rPc = "start"
    /\ tPc = "idle"
    /\ RunFresh
    /\ TunFresh

\* a send on a channel of capacity 1 inside select with a default case
TrySend(ch, v) == IF ch = <<>> THEN <<v>> ELSE ch

\* host, port, err := net.SplitHostPort(localSocksPort); the configuration
\* and the parameters are built; childCtx and the ticker are created
RunStart ==
    /\ rPc = "start"
    /\ IF SplitHostPort(AddrPortString(opts.Bind)).err
       THEN rPc' = "returned" /\ rRet' = "SplitHostPort"
       ELSE rPc' = "select" /\ rRet' = rRet
    /\ UNCHANGED <<rCtx, rChildErr, rTick, rFailed, tunVars, coreVars>>
    /\ UNCHANGED notPsi

\* the two minutes of childCtx pass
RunDeadline ==
    /\ rPc \in {"select", "attempt"}
    /\ rChildErr = ""
    /\ rChildErr' = "deadline"
    /\ UNCHANGED <<rPc, rRet, rCtx, rTick, rFailed, tunVars, coreVars>>
    /\ UNCHANGED notPsi

\* the caller's context is cancelled (SIGINT, SIGTERM); childCtx follows
RunCancel ==
    /\ rPc \in {"select", "attempt"}
    /\ rCtx = "live"
    /\ rCtx' = "canceled"
    /\ rChildErr' = IF rChildErr = "" THEN "canceled" ELSE rChildErr
    /\ UNCHANGED <<rPc, rRet, rTick, rFailed, tunVars, coreVars>>
    /\ UNCHANGED notPsi

\* the ticker t fires: a tick is held for the loop, a second one is dropped
RunTick ==
    /\ rPc \in {"select", "attempt"}
    /\ ~rTick
    /\ rTick' = TRUE
    /\ UNCHANGED <<rPc, rRet, rCtx, rChildErr, rFailed, tunVars, coreVars>>
    /\ UNCHANGED notPsi

\* case <-childCtx.Done()
RunSelectDone ==
    /\ rPc = "select"
    /\ rChildErr # ""
    /\ rRet' = IF rChildErr = "canceled"
               THEN "psiphon handshake operation canceled"
               ELSE "psiphon handshake maximum time exceeded"
    /\ rPc' = "returned"
    /\ UNCHANGED <<rCtx, rChildErr, rTick, rFailed, tunVars, coreVars>>
    /\ UNCHANGED notPsi

\* case <-t.C: StartTunnel(ctx, configJSON, "", p, nil, nil) is called with
\* the caller's context; it makes its channels and its Tunnel
RunSelectTick ==
    /\ rPc = "select"
    /\ rTick
    /\ rTick' = FALSE
    /\ rPc' = "attempt"
    /\ tPc' = "config"
    /\ tRet' = ""
    /\ tErr' = ""
    /\ errored' = <<>>
    /\ connected' = <<>>
    /\ tPosts' = <<>>
    /\ tPort' = "0"
    /\ stopped' = FALSE
    /\ ctrl' = "none"
    /\ watch' = "none"
    /\ imp' = "none"
    /\ established' = FALSE
    /\ UNCHANGED <<rRet, rCtx, rChildErr, rFailed, store>>
    /\ UNCHANGED notPsi

\* StartTunnel has returned: nil ends RunPsiphon, an error is logged and the
\* loop continues
RunAttemptDone_Fatal ==
    /\ rPc = "attempt"
    /\ tPc = "returned"
    /\ rPc' = "returned"
    /\ rRet' = IF tRet = "tunnel" THEN "nil" ELSE tRet
    /\ rFailed' = rFailed
    /\ UNCHANGED <<rCtx, rChildErr, rTick, tunVars, coreVars>>
    /\ UNCHANGED notPsi
RunAttemptDone ==
    /\ rPc = "attempt"
    /\ tPc = "returned"
    /\ IF tRet = "tunnel"
       THEN rPc' = "returned" /\ rRet' = "nil" /\ rFailed' = rFailed
       ELSE rPc' = "select" /\ rRet' = rRet /\ rFailed' = Min(rFailed + 1, MaxAttempts)
    /\ UNCHANGED <<rCtx, rChildErr, rTick, tunVars, coreVars>>
    /\ UNCHANGED notPsi

(* StartTunnel: the caller *)

\* psiphon.LoadConfig, config.Commit
TunConfig ==
    /\ tPc = "config"
    /\ \E ok \in BOOLEAN :
          IF ok THEN tPc' = "open" /\ tRet' = tRet
          ELSE tPc' = "returned" /\ tRet' = "failed to load config file"
    /\ UNCHANGED <<tErr, errored, connected, tPosts, tPort, store, stopped>>
    /\ UNCHANGED <<runVars, coreVars>>
    /\ UNCHANGED notPsi

\* psiphon.OpenDataStore(config); the deferred function is registered after
\* it has succeeded
TunOpen ==
    /\ tPc = "open"
    /\ \E ok \in BOOLEAN :
          IF ok
          THEN /\ tPc' = "import"
               /\ tRet' = tRet
               /\ store' = [opened |-> TRUE, closes |-> 0]
          ELSE /\ tPc' = "returned"
               /\ tRet' = "failed to open data store"
               /\ store' = store
    /\ UNCHANGED <<tErr, errored, connected, tPosts, tPort, stopped>>
    /\ UNCHANGED <<runVars, coreVars>>
    /\ UNCHANGED notPsi

\* the import task is started; without server entries its end is awaited
TunImport ==
    /\ tPc = "import"
    /\ imp' = "running"
    /\ \E HasServerEntries \in BOOLEAN :
          tPc' = IF HasServerEntries THEN "newctrl" ELSE "awaitImport"
    /\ UNCHANGED <<tRet, tErr, errored, connected, tPosts, tPort, store, stopped>>
    /\ UNCHANGED <<runVars, ctrl, watch, established>>
    /\ UNCHANGED notPsi

\* tunnel.embeddedServerListWaitGroup.Wait()
TunAwaitImport ==
    /\ tPc = "awaitImport"
    /\ imp = "done"
    /\ tPc' = "newctrl"
    /\ UNCHANGED <<tRet, tErr, errored, connected, tPosts, tPort, store, stopped>>
    /\ UNCHANGED <<runVars, coreVars>>
    /\ UNCHANGED notPsi

\* psiphon.NewController(config); on success the controller task is started,
\* on an error tunnel.stopController() is called
TunNewController ==
    /\ tPc = "newctrl"
    /\ \E ok \in BOOLEAN :
          IF ok
          THEN /\ tPc' = "select"
               /\ ctrl' = "running"
               /\ watch' = "armed"
               /\ stopped' = stopped
          ELSE /\ tPc' = "ctrlFailed"
               /\ stopped' = TRUE
               /\ UNCHANGED <<ctrl, watch>>
    /\ UNCHANGED <<tRet, tErr, errored, connected, tPosts, tPort, store>>
    /\ UNCHANGED <<runVars, imp, established>>
    /\ UNCHANGED notPsi

\* tunnel.embeddedServerListWaitGroup.Wait(); return nil, errors.New(...)
TunCtrlFailed ==
    /\ tPc = "ctrlFailed"
    /\ imp = "done"
    /\ tRet' = "psiphon.NewController failed"
    /\ tPc' = "defer"
    /\ UNCHANGED <<tErr, errored, connected, tPosts, tPort, store, stopped>>
    /\ UNCHANGED <<runVars, coreVars>>
    /\ UNCHANGED notPsi

\* case <-connected: return tunnel, nil (the deferred function does nothing)
TunSelectConnected ==
    /\ tPc = "select"
    /\ connected # <<>>
    /\ connected' = <<>>
    /\ tRet' = "tunnel"
    /\ tPc' = "returned"
    /\ UNCHANGED <<tErr, errored, tPosts, tPort, store, stopped>>
    /\ UNCHANGED <<runVars, coreVars>>
    /\ UNCHANGED notPsi

\* case err := <-errored
TunSelectErrored ==
    /\ tPc = "select"
    /\ errored # <<>>
    /\ tErr' = Head(errored)
    /\ errored' = <<>>
    /\ tPc' = "stop"
    /\ UNCHANGED <<tRet, connected, tPosts, tPort, store, stopped>>
    /\ UNCHANGED <<runVars, coreVars>>
    /\ UNCHANGED notPsi

\* tunnel.Stop(): tunnel.stopController()
TunStop ==
    /\ tPc = "stop"
    /\ stopped' = TRUE
    /\ tPc' = "stopWait"
    /\ UNCHANGED <<tRet, tErr, errored, connected, tPosts, tPort, store>>
    /\ UNCHANGED <<runVars, coreVars>>
    /\ UNCHANGED notPsi

\* tunnel.Stop(): both Wait() calls, psiphon.CloseDataStore(); then
\* return nil, err with every error but ErrTimeout replaced
TunStopWait ==
    /\ tPc = "stopWait"
    /\ ctrl = "done"
    /\ imp = "done"
    /\ store' = [opened |-> FALSE, closes |-> store.closes + 1]
    /\ tRet' = IF tErr = ErrTimeout THEN ErrTimeout ELSE "tunnel start produced error"
    /\ tPc' = "defer"
    /\ UNCHANGED <<tErr, errored, connected, tPosts, tPort, stopped>>
    /\ UNCHANGED <<runVars, coreVars>>
    /\ UNCHANGED notPsi

\* the deferred function with retErr != nil: both Wait() calls,
\* psiphon.CloseDataStore()
TunDefer ==
    /\ tPc = "defer"
    /\ ctrl \in {"none", "done"}
    /\ imp = "done"
    /\ store' = [opened |-> FALSE, closes |-> store.closes + 1]
    /\ tPc' = "returned"
    /\ UNCHANGED <<tRet, tErr, errored, connected, tPosts, tPort, stopped>>
    /\ UNCHANGED <<runVars, coreVars>>
    /\ UNCHANGED notPsi

(* StartTunnel: the tasks, and the notices of tunnel core *)

\* ImportEmbeddedServerEntries returns: done, failed (a notice) or interrupted
ImportDone ==
    /\ imp = "running"
    /\ imp' = "done"
    /\ UNCHANGED <<runVars, tunVars, ctrl, watch, established>>
    /\ UNCHANGED notPsi

\* notice ListeningSocksProxyPort: the handler stores the port
NoticeListening ==
    /\ ctrl = "running"
    /\ tPort = "0"
    /\ tPort' = opts.Bind.port
    /\ UNCHANGED <<tPc, tRet, tErr, errored, connected, tPosts, store, stopped>>
    /\ UNCHANGED <<runVars, coreVars>>
    /\ UNCHANGED notPsi

\* notice Tunnels with count > 0: the handler sends on connected unless it
\* is full
NoticeTunnels ==
    /\ ctrl = "running"
    /\ watch = "armed"
    /\ ~established
    /\ established' = TRUE
    /\ connected' = TrySend(connected, "connected")
    /\ UNCHANGED <<tPc, tRet, tErr, errored, tPosts, tPort, store, stopped>>
    /\ UNCHANGED <<runVars, ctrl, watch, imp>>
    /\ UNCHANGED notPsi

\* the establishment timeout passes with no tunnel established: tunnel core
\* emits the notice EstablishTunnelTimeout
WatchTimeout ==
    /\ ctrl = "running"
    /\ watch = "armed"
    /\ ~established
    /\ watch' = "notice"
    /\ UNCHANGED <<runVars, tunVars, ctrl, imp, established>>
    /\ UNCHANGED notPsi

\* notice EstablishTunnelTimeout: the handler sends ErrTimeout on errored
\* unless it is full; the emitting goroutine then terminates
NoticeTimeout ==
    /\ watch = "notice"
    /\ errored' = TrySend(errored, ErrTimeout)
    /\ tPosts' = Append(tPosts, [by |-> "notice", err |-> ErrTimeout,
                                 sent |-> errored = <<>>])
    /\ watch' = "done"
    /\ UNCHANGED <<tPc, tRet, tErr, connected, tPort, store, stopped>>
    /\ UNCHANGED <<runVars, ctrl, imp, established>>
    /\ UNCHANGED notPsi

\* controller.Run(controllerCtx) returns: after the timeout, after
\* controllerCtx is cancelled, or for a failure of its own; never while the
\* goroutine that posts EstablishTunnelTimeout is still running
RunExitCause == stopped \/ rCtx # "live" \/ watch = "done"
ControllerRunExit_NoWait ==
    /\ ctrl = "running"
    /\ ctrl' = "exited"
    /\ watch' = IF watch = "notice" THEN watch ELSE "done"
    /\ UNCHANGED <<runVars, tunVars, imp, established>>
    /\ UNCHANGED notPsi
ControllerRunExit ==
    /\ ctrl = "running"
    /\ watch # "notice"
    /\ ctrl' = "exited"
    /\ watch' = "done"
    /\ UNCHANGED <<runVars, tunVars, imp, established>>
    /\ UNCHANGED notPsi

\* the controller task after controller.Run: the error is chosen by
\* ctx.Err() and sent on errored unless it is full
ControllerPost ==
    /\ ctrl = "exited"
    /\ LET err == CASE rCtx = "deadline" -> ErrTimeout
                    [] rCtx = "canceled" -> "StartTunnel canceled"
                    [] OTHER -> "controller.Run exited unexpectedly"
       IN /\ errored' = TrySend(errored, err)
          /\ tPosts' = Append(tPosts, [by |-> "controller", err |-> err,
                                       sent |-> errored = <<>>])
    /\ ctrl' = "done"
    /\ UNCHANGED <<tPc, tRet, tErr, connected, tPort, store, stopped>>
    /\ UNCHANGED <<runVars, watch, imp, established>>
    /\ UNCHANGED notPsi

StartTunnelStep ==
    \/ TunConfig
    \/ TunOpen
    \/ TunImport
    \/ TunAwaitImport
    \/ TunNewController
    \/ TunCtrlFailed
    \/ TunSelectConnected
    \/ TunSelectErrored
    \/ TunStop
    \/ TunStopWait
    \/ TunDefer

PsiNext ==
    \/ RunStart
    \/ RunDeadline
    \/ RunCancel
    \/ RunTick
    \/ RunSelectDone
    \/ RunSelectTick
    \/ RunAttemptDone
    \/ StartTunnelStep
    \/ ImportDone
    \/ NoticeListening
    \/ NoticeTunnels
    \/ WatchTimeout
    \/ NoticeTimeout
    \/ ControllerRunExit
    \/ ControllerPost

PsiSpec == PsiInit /\ [][PsiNext]_vars

\* Every goroutine that can run does run, the timers fire, and a select
\* whose Done case is ready again and again takes it at some time.  The
\* controller returns once it has a cause to; nothing is assumed of
\* cancellation or of a tunnel being established.
PsiFairSpec ==
    /\ PsiSpec
    /\ WF_vars(RunStart)
    /\ WF_vars(RunDeadline)
    /\ WF_vars(RunTick)
    /\ WF_vars(RunAttemptDone)
    /\ SF_vars(RunSelectDone)
    /\ WF_vars(StartTunnelStep)
    /\ WF_vars(ImportDone)
    /\ WF_vars(WatchTimeout)
    /\ WF_vars(NoticeTimeout)
    /\ WF_vars(RunExitCause /\ ControllerRunExit)
    /\ WF_vars(ControllerPost)

C25_ClosedOnce ==
    (/\ tPc = "returned"
     /\ tRet \notin {"tunnel", "failed to load config file", "failed to open data store"})
    => /\ ctrl \in {"none", "done"}
       /\ imp = "done"
       /\ ~store.opened
       /\ store.closes = 1

\* the part of C25 about the tasks alone
TasksJoined ==
    (/\ tPc = "returned"
     /\ tRet \notin {"tunnel", "failed to load config file", "failed to open data store"})
    => /\ ctrl \in {"none", "done"}
       /\ imp = "done"
       /\ ~store.opened
       /\ store.closes >= 1

\* C26: RunPsiphon returns nil exactly when a StartTunnel attempt succeeded;
\* after a failed attempt the loop goes on; an attempt succeeds only while
\* neither the two minutes have passed nor the context is cancelled, so that
\* from then on RunPsiphon returns an error; and once the two minutes have
\* passed or the context is cancelled RunPsiphon returns.
NilIffSucceeded == rPc = "returned" => (rRet = "nil" <=> tRet = "tunnel")
FailedIsRetried ==
    (rPc = "attempt" /\ tPc = "returned" /\ tRet # "tunnel" /\ rPc' # rPc)
    => (rPc' = "select" /\ rRet' = "")
SucceedsInTime == (rRet' = "nil" /\ rRet # "nil") => rChildErr = ""
C26_RetryUntilDeadline ==
    /\ []NilIffSucceeded
    /\ [][FailedIsRetried]_vars
    /\ [][SucceedsInTime]_vars
    /\ (rChildErr # "" ~> rPc = "returned")

\* what of C26 does hold: the result, the retry, and the return
RunPsiphonReturns ==
    /\ []NilIffSucceeded
    /\ [][FailedIsRetried]_vars
    /\ (rChildErr # "" ~> rPc = "returned")

----------------------------------------------------------------------------
(* main: the flags, the signal context, the RunWarp goroutine, the exit *)

\* Command lines: ff.Parse succeeds, prints the help or fails; the bind text
\* is an address with a port or not; the endpoint is given or empty.
FlagSets ==
    [parse : {"ok", "help", "error"},
     v4 : BOOLEAN, v6 : BOOLEAN, cfon : BOOLEAN, gool : BOOLEAN, scan : BOOLEAN,
     bind : {<<"127.0.0.1", ":", "8086">>, <<"8086">>},
     endpoint : {<<>>, <<"162.159.192.1", ":", "2408">>},
     country : {"AT"}]

NoOptions ==
    [Bind |-> NoAddrPort, Endpoint |-> <<>>,
     Psiphon |-> [set |-> FALSE, Country |-> ""], Gool |-> FALSE, Scan |-> FALSE]

MainInit ==
    /\ opts = NoOptions
    /\ WarpStart
    /\ FwdIdle
    /\ EngIdle
    /\ HdlIdle
    /\ CfgIdle
    /\ PsiIdle
    /\ mPc = "flags"
    /\ mFlags \in FlagSets
    /\ mExit = "none"
    /\ mHanded = [random |-> NoPair, scan |-> NoPair]
    /\ mAtSignal = "none"
    /\ AccIdle
    /\ DevIdle
    /\ PingIdle

\* if !*v4 && !*v6 { *v4, *v6 = true, true }
Families_AsGiven(v4, v6) == [V4 |-> v4, V6 |-> v6, set |-> TRUE]
Families(v4, v6) ==
    IF ~v4 /\ ~v6
    THEN [V4 |-> TRUE, V6 |-> TRUE, set |-> TRUE]
    ELSE [V4 |-> v4, V6 |-> v6, set |-> TRUE]

\* warp.RandomWarpEndpoint(v4, v6): an address of an enabled family, or an
\* error
RandomWarpEndpoint(v4, v6) ==
    {[err |-> TRUE, addrPort |-> <<>>]}
    \cup (IF v4 THEN {[err |-> FALSE,
                       addrPort |-> <<"162.159.192.1", ":", "2408">>]}
          ELSE {})
    \cup (IF v6 THEN {[err |-> FALSE,
                       addrPort |-> AddrPortString([ip |-> "2606:4700:d0::1",
                                                    port |-> "2408"])]}
          ELSE {})

\* os.Exit(code), from main or from fatal
Exit(code) ==
    /\ mPc' = "exited"
    /\ mExit' = code

\* main up to `go func() { app.RunWarp(ctx, l, opts) }()`
MainFlags ==
    /\ mPc = "flags"
    /\ LET f == mFlags
           pair == Families(f.v4, f.v6)
           bindAddrPort == SplitHostPort(f.bind)
           options(ep) ==
               [Bind |-> [ip |-> bindAddrPort.host, port |-> bindAddrPort.port],
                Endpoint |-> ep,
                Psiphon |-> [set |-> f.cfon,
                             Country |-> IF f.cfon THEN f.country ELSE ""],
                Gool |-> f.gool,
                Scan |-> f.scan]
       IN IF f.parse = "help"
          THEN Exit("0") /\ UNCHANGED <<opts, mHanded>>
          ELSE IF \/ f.parse = "error"
                  \/ f.cfon /\ f.gool
                  \/ f.v4 /\ f.v6
                  \/ bindAddrPort.err
          THEN Exit("1") /\ UNCHANGED <<opts, mHanded>>
          ELSE IF f.endpoint # <<>>
          THEN /\ opts' = options(f.endpoint)
               /\ mHanded' = [random |-> NoPair,
                              scan |-> IF f.scan THEN pair ELSE NoPair]
               /\ mPc' = "running"
               /\ mExit' = mExit
          ELSE \E r \in RandomWarpEndpoint(pair.V4, pair.V6) :
                  /\ mHanded' = [random |-> pair,
                                 scan |-> IF f.scan THEN pair ELSE NoPair]
                  /\ IF r.err
                     THEN Exit("1") /\ opts' = opts
                     ELSE /\ opts' = options(r.addrPort)
                          /\ mPc' = "running"
                          /\ mExit' = mExit
    /\ UNCHANGED <<mFlags, mAtSignal>>
    /\ UNCHANGED <<pc, ret, ctxDone, endpoints, conf, iniRead, dev, tnet, fwd,
                   proxy, psi, identities, log, scanPc, scanCtx, available,
                   ipList, scanResult>>
    /\ UNCHANGED <<fwdVars, engVars, hdlVars, cfgVars, psiVars, accVars, devVars, pingVars>>

\* SIGINT or SIGTERM: the context of signal.NotifyContext is cancelled
MainSignal ==
    /\ mPc = "running"
    /\ ~ctxDone
    /\ ctxDone' = TRUE
    /\ mAtSignal' = ret
    /\ UNCHANGED <<mPc, mFlags, mExit, mHanded>>
    /\ UNCHANGED <<opts, pc, ret, endpoints, conf, iniRead, dev, tnet, fwd, proxy,
                   psi, identities, log, scanPc, scanCtx, available, ipList,
                   scanResult>>
    /\ UNCHANGED <<fwdVars, engVars, hdlVars, cfgVars, psiVars, accVars, devVars, pingVars>>

\* <-ctx.Done() in main, which then returns
MainDone ==
    /\ mPc = "running"
    /\ ctxDone
    /\ Exit("0")
    /\ UNCHANGED <<mFlags, mHanded, mAtSignal>>
    /\ UNCHANGED <<warpVars, fwdVars, engVars, hdlVars, cfgVars, psiVars, accVars, devVars, pingVars>>

\* the goroutine: if err := app.RunWarp(ctx, l, opts); err != nil { fatal(l, err) }
MainFatal ==
    /\ mPc = "running"
    /\ At("RunWarp", "returned")
    /\ ret # "nil"
    /\ Exit("1")
    /\ UNCHANGED <<mFlags, mHanded, mAtSignal>>
    /\ UNCHANGED <<warpVars, fwdVars, engVars, hdlVars, cfgVars, psiVars, accVars, devVars, pingVars>>

\* RunWarp and what it started, while the process runs
MainWarp ==
    /\ mPc = "running"
    /\ \/ RunWarpStep
       \/ \E h \in Hops : StopOnCancel(h)
       \/ ScanDeadline
       \/ ScannerEnqueue
       \/ ScannerExpire

MainNext ==
    \/ MainFlags
    \/ MainSignal
    \/ MainDone
    \/ MainFatal
    \/ MainWarp

MainSpec == MainInit /\ [][MainNext]_vars

\* main alone, up to the start of RunWarp
FlagSpec == MainInit /\ [][MainFlags]_vars

\* C27: a process that a signal reached while RunWarp was running or had
\* returned nil, and in which nothing failed but what the signal stopped,
\* exits with code 0; code 1 is the exit of a flag error or of an error
\* RunWarp returned; and after RunWarp has returned nil the process runs on
\* until the signal.
C27_ExitCodes ==
    /\ (/\ mExit # "none"
        /\ mAtSignal \in {"running", "nil"}
        /\ ret \in {"running", "nil", "user canceled the operation"}) => mExit = "0"
    /\ mExit = "1" => (mFlags.parse = "ok" => (opts = NoOptions \/ ret \notin {"running", "nil"}))
    /\ (At("RunWarp", "returned") /\ ret = "nil" /\ ~ctxDone) => mExit = "none"

\* C28: with both -4 and -6 the process ends with an error and no endpoint
\* is chosen; with neither both families are enabled; and every pair that
\* is passed to the random endpoint selection or put into the scan options
\* has a family enabled.
C28_FamiliesExclusive ==
    mPc # "flags" =>
        /\ (mFlags.parse = "ok" /\ mFlags.v4 /\ mFlags.v6) =>
              /\ mExit = "1"
              /\ opts = NoOptions
              /\ ~mHanded.random.set /\ ~mHanded.scan.set
        /\ \A use \in {"random", "scan"} :
              mHanded[use].set =>
                 /\ mHanded[use].V4 \/ mHanded[use].V6
                 /\ (~mFlags.v4 /\ ~mFlags.v6) => (mHanded[use].V4 /\ mHanded[use].V6)

\* neither flag given, no endpoint given, scanning: both uses got (true, true)
C28_Witness ==
    /\ mPc = "running"
    /\ ~mFlags.v4 /\ ~mFlags.v6
    /\ mHanded.random = [V4 |-> TRUE, V6 |-> TRUE, set |-> TRUE]
    /\ mHanded.scan = [V4 |-> TRUE, V6 |-> TRUE, set |-> TRUE]

\* ------------------------------------------------------------------
\* warp identities: createPrimaryAndSecondaryIdentities calls
\* LoadOrCreateIdentity for "./stuff/primary" and then, if that returned
\* nil, for "./stuff/secondary", both with the same license
\* ------------------------------------------------------------------

\* the license argument; "" is no license
Licenses == {"", "lic-A", "lic-B"}

\* an identity file written by an earlier run
StoredIdentities ==
    [ID : {"id0"}, Token : {"t0"}, License : {"free", "lic-A"}, Peers : {0, 1}]

\* what a directory can hold at the start: the identity file is absent,
\* not JSON, or an identity; the profile file is absent or an older one
StoredDirs ==
    [file : {"none", "corrupt"}, identity : {NoIdentity}, profile : {"none", "old"}]
    \cup [file : {"ok"}, identity : StoredIdentities, profile : {"none", "old"}]

NoDir == [file |-> "none", identity |-> NoIdentity, profile |-> "none"]

AccInit ==
    /\ aPc = "load"
    /\ aPath = "./stuff/primary"
    /\ aLicense \in Licenses
    /\ aUmask \in Umasks
    /\ aStored \in [Paths -> StoredDirs]
    /\ aDir = aStored
    /\ AccFresh
    /\ opts = NoOptions
    /\ WarpStart /\ FwdIdle /\ EngIdle /\ HdlIdle /\ CfgIdle /\ PsiIdle /\ MainIdle
    /\ DevIdle
    /\ PingIdle

\* LoadIdentity(path)
LoadIdentity(d) ==
    IF d.file = "none" THEN [err |-> "stat identity file", i |-> NoIdentity]
    ELSE IF d.profile = "none" THEN [err |-> "stat profile file", i |-> NoIdentity]
    ELSE IF d.file = "corrupt" THEN [err |-> "unmarshal", i |-> NoIdentity]
    ELSE IF d.identity.Peers < 1
         THEN [err |-> "identity contains 0 peers", i |-> NoIdentity]
    ELSE [err |-> "nil", i |-> d.identity]

\* the comparison without its test for an empty license
LicenseDiffers_IgnoresEmpty(i, license) == i.License # license

\* license != "" && i.Account.License != license
LicenseDiffers(i, license) == license # "" /\ i.License # license

\* LoadOrCreateIdentity returns err; createPrimaryAndSecondaryIdentities
\* goes on with the secondary directory after a nil for the primary one
AccReturn(err, i) ==
    /\ aRet' = [aRet EXCEPT ![aPath] = err]
    /\ aId' = i
    /\ IF err = "nil" /\ aPath = "./stuff/primary"
       THEN aPc' = "load" /\ aPath' = "./stuff/secondary"
       ELSE aPc' = "done" /\ aPath' = aPath
    /\ aStage' = "none"

\* os.RemoveAll(path) and os.MkdirAll(path), then CreateIdentity
AccWipe(stage) ==
    \E out \in {"ok", "remove failed", "mkdir failed"} :
       /\ aDir' = IF out = "remove failed" THEN aDir
                  ELSE [aDir EXCEPT ![aPath] = NoDir]
       /\ aWiped' = IF out = "remove failed" THEN aWiped
                    ELSE [aWiped EXCEPT ![aPath] = @ + 1]
       /\ IF out = "ok"
          THEN /\ aPc' = "register"
               /\ aStage' = stage
               /\ UNCHANGED <<aPath, aRet, aId>>
          ELSE AccReturn(out, aId)

\* i, err := LoadIdentity(path) and the branch on its error
AccLoad ==
    /\ aPc = "load"
    /\ LET r == LoadIdentity(aDir[aPath]) IN
       IF r.err = "nil"
       THEN /\ aId' = r.i
            /\ aPc' = "compare"
            /\ UNCHANGED <<aPath, aStage, aDir, aRet, aWiped>>
       ELSE AccWipe("first")
    /\ UNCHANGED <<aUmask, aLicense, aStored, aRegistered, aSeq, defaultHeaders, aReqs>>
    /\ UNCHANGED aModes
    /\ UNCHANGED notAcc

\* the request doRegister sends: every entry of defaultHeaders is set
doRegisterRequest == [op |-> "register", headers |-> defaultHeaders]

\* CreateIdentity up to doRegister: the key pair, then the registration;
\* the answer is decoded whatever its status, so it may have no peers
AccRegister ==
    /\ aPc = "register"
    /\ \E out \in {"ok", "key failed", "request failed"}, peers \in {0, 1} :
       /\ aReqs' = IF out = "key failed" THEN aReqs
                   ELSE Append(aReqs, doRegisterRequest)
       /\ IF out = "ok"
          THEN /\ aSeq' = aSeq + 1
               /\ aId' = [ID |-> "id" \o Itoa(aSeq + 1),
                          Token |-> "t" \o Itoa(aSeq + 1),
                          License |-> "free", Peers |-> peers]
               /\ aPc' = IF aLicense # "" THEN "license" ELSE "save"
               /\ UNCHANGED <<aPath, aStage, aRet>>
          ELSE /\ peers = 0
               /\ aSeq' = aSeq
               /\ AccReturn(out, aId)
    /\ UNCHANGED <<aUmask, aLicense, aStored, aDir, aWiped, aRegistered, defaultHeaders>>
    /\ UNCHANGED aModes
    /\ UNCHANGED notAcc

\* headers := defaultHeaders; headers["Authorization"] = "Bearer " + accessToken
\* headers is the map defaultHeaders itself: a map assignment copies no entry
withAuthorization(accessToken) ==
    ("Authorization" :> ("Bearer " \o accessToken)) @@ defaultHeaders

\* updateLicenseKey(i.ID, i.Token, license) and i.Account = ac
AccLicense ==
    /\ aPc = "license"
    /\ defaultHeaders' = withAuthorization(aId.Token)
    /\ \E out \in {"ok", "PATCH failed", "GET failed"}, answer \in {aLicense, "free"} :
       /\ aReqs' = aReqs \o
              IF out = "PATCH failed"
              THEN <<[op |-> "PATCH", headers |-> defaultHeaders']>>
              ELSE <<[op |-> "PATCH", headers |-> defaultHeaders'],
                     [op |-> "GET", headers |-> defaultHeaders']>>
       /\ IF out = "ok"
          THEN /\ aId' = [aId EXCEPT !.License = answer]
               /\ aPc' = "save"
               /\ UNCHANGED <<aPath, aStage, aRet>>
          ELSE /\ answer = aLicense
               /\ AccReturn(out, aId)
    /\ UNCHANGED <<aUmask, aLicense, aStored, aDir, aWiped, aRegistered, aSeq>>
    /\ UNCHANGED aModes
    /\ UNCHANGED notAcc

\* open with O_CREATE: a file that is created gets perm &^ umask, an
\* existing one keeps the mode it has
Created(modes, exists, perm) ==
    IF exists THEN modes ELSE modes \cup {perm \ aUmask}

\* saveIdentity(i, path), whose os.Create opens with perm 0666, and
\* CreateIdentity's return to its caller
AccSave ==
    /\ aPc = "save"
    /\ \E ok \in BOOLEAN :
       IF ok
       THEN /\ aDir' = [aDir EXCEPT ![aPath].file = "ok", ![aPath].identity = aId]
            /\ aRegistered' = [aRegistered EXCEPT ![aPath] = Append(@, aId)]
            /\ aModes' = [aModes EXCEPT ![aPath].identity =
                              Created(@, aDir[aPath].file # "none", Mode0666)]
            /\ aPc' = IF aStage = "first" THEN "compare" ELSE "conf"
            /\ UNCHANGED <<aPath, aStage, aRet, aId>>
       ELSE /\ UNCHANGED <<aDir, aRegistered, aModes>>
            /\ AccReturn("save failed", aId)
    /\ UNCHANGED <<aUmask, aLicense, aStored, aWiped, aSeq, defaultHeaders, aReqs>>
    /\ UNCHANGED notAcc

\* if license != "" && i.Account.License != license { ... }
AccCompare ==
    /\ aPc = "compare"
    /\ IF LicenseDiffers(aId, aLicense)
       THEN AccWipe("second")
       ELSE /\ aPc' = "conf"
            /\ UNCHANGED <<aPath, aStage, aDir, aRet, aId, aWiped>>
    /\ UNCHANGED <<aUmask, aLicense, aStored, aRegistered, aSeq, defaultHeaders, aReqs>>
    /\ UNCHANGED aModes
    /\ UNCHANGED notAcc

\* createConf(i, path), whose os.WriteFile opens with perm 0600; Peers[0]
\* of an identity without peers panics
AccConf ==
    /\ aPc = "conf"
    /\ IF aId.Peers < 1
       THEN /\ AccReturn("panic: index out of range", aId)
            /\ UNCHANGED <<aDir, aModes>>
       ELSE \E ok \in BOOLEAN :
              IF ok
              THEN /\ aDir' = [aDir EXCEPT ![aPath].profile = aId.ID]
                   /\ aModes' = [aModes EXCEPT ![aPath].profile =
                                     Created(@, aDir[aPath].profile # "none", Mode0600)]
                   /\ AccReturn("nil", aId)
              ELSE /\ UNCHANGED <<aDir, aModes>>
                   /\ AccReturn("unable to enable write config file", aId)
    /\ UNCHANGED <<aUmask, aLicense, aStored, aWiped, aRegistered, aSeq, defaultHeaders, aReqs>>
    /\ UNCHANGED notAcc

\* RemoveDevice(l, accountID, accessToken), called once for a saved identity
AccRemoveDevice ==
    /\ aPc = "done"
    /\ \A k \in 1..Len(aReqs) : aReqs[k].op # "DELETE"
    /\ \E p \in Paths :
       /\ aDir[p].file = "ok"
       /\ defaultHeaders' = withAuthorization(aDir[p].identity.Token)
       /\ aReqs' = Append(aReqs, [op |-> "DELETE", headers |-> defaultHeaders'])
    /\ UNCHANGED <<aPc, aPath, aStage, aLicense, aStored, aDir, aId, aRet, aWiped,
                   aRegistered, aSeq, aUmask, aModes>>
    /\ UNCHANGED notAcc

AccNext ==
    \/ AccLoad
    \/ AccRegister
    \/ AccLicense
    \/ AccSave
    \/ AccCompare
    \/ AccConf
    \/ AccRemoveDevice

AccSpec == AccInit /\ [][AccNext]_vars

\* the identity LoadOrCreateIdentity ended with for path p, read back from
\* what it left: the last one registered for p, or else the stored one
InUse(p) ==
    IF aRegistered[p] = <<>> THEN aStored[p].identity
    ELSE aRegistered[p][Len(aRegistered[p])]

\* C29: whenever LoadOrCreateIdentity has returned nil for a directory, the
\* stored identity was kept, with no wipe and no registration, exactly when
\* it loaded and the license argument was empty or equal to its license;
\* otherwise the directory was wiped and a newly registered identity was
\* saved in it; and in both cases the profile file was written from the
\* identity that is in the directory at the end.
C29_ReuseExactlyWhenLicenseAgrees ==
    \A p \in Paths :
       aRet[p] = "nil" =>
          LET loaded == LoadIdentity(aStored[p])
              reuse == /\ loaded.err = "nil"
                       /\ (aLicense = "" \/ loaded.i.License = aLicense)
          IN /\ reuse => /\ aWiped[p] = 0
                         /\ aRegistered[p] = <<>>
                         /\ aDir[p].identity = aStored[p].identity
             /\ ~reuse => /\ aWiped[p] >= 1
                          /\ aRegistered[p] # <<>>
                          /\ InUse(p).ID # aStored[p].identity.ID
                          /\ aDir[p].identity = InUse(p)
             /\ aDir[p].file = "ok"
             /\ aDir[p].profile = InUse(p).ID

\* the primary identity was reused although a license was asked for, the
\* secondary one was replaced because its license was another one
C29_Witness ==
    /\ aLicense = "lic-A"
    /\ aRet["./stuff/primary"] = "nil"
    /\ aRet["./stuff/secondary"] = "nil"
    /\ aRegistered["./stuff/primary"] = <<>>
    /\ aDir["./stuff/primary"].profile = "id0"
    /\ LoadIdentity(aStored["./stuff/secondary"]).err = "nil"
    /\ aStored["./stuff/secondary"].identity.License = "free"
    /\ aWiped["./stuff/secondary"] = 1
    /\ aDir["./stuff/secondary"].profile = "id1"

\* C30: defaultHeaders always has the entries makeDefaultHeaders gave it,
\* and no registration request carries an Authorization header.
C30_DefaultHeadersUnchanged ==
    /\ defaultHeaders = makeDefaultHeaders
    /\ \A k \in 1..Len(aReqs) :
          aReqs[k].op = "register" => "Authorization" \notin DOMAIN aReqs[k].headers

\* C31: every identity file and every profile file that an operation has
\* created was created with mode 0600.
C31_FilesAre0600 ==
    \A p \in Paths :
       /\ \A mode \in aModes[p].identity : mode = Mode0600
       /\ \A mode \in aModes[p].profile : mode = Mode0600

\* the part of C31 about the profile file alone
C31_ProfileIs0600 ==
    \A p \in Paths : \A mode \in aModes[p].profile : mode = Mode0600

\* ------------------------------------------------------------------
\* WireGuard device, outbound side of one peer: the trick flag.
\* The device package is not part of the sources at hand; the device is
\* written from its description: the first datagram emitted to a peer
\* with the flag on a fresh socket is a junk packet, the handshake
\* initiation follows at once, the flag is kept per socket and cleared
\* once consumed; Down closes the socket and zeroizes the session keys.
\* ------------------------------------------------------------------

MaxSockets == 2       \* sockets the device opens (Up after Down)
MaxSends == 4         \* datagrams emitted on one socket

\* nothing but the device is running
RestIdle ==
    /\ opts = NoOptions
    /\ WarpStart /\ FwdIdle /\ EngIdle /\ HdlIdle /\ CfgIdle /\ PsiIdle /\ MainIdle
    /\ AccIdle
    /\ PingIdle

\* the device after IpcSet: runWarp sets Trick on the peers of the outer
\* hop and leaves it unset on those of the inner hop of warp in warp
TrickInit ==
    /\ dvTrick \in BOOLEAN
    /\ dvUp = FALSE
    /\ dvSock = 0
    /\ dvJunkDue = FALSE
    /\ dvHs = "none"
    /\ dvWire = <<>>
    /\ ReplayIdle /\ ReorderIdle
    /\ RestIdle

\* the datagrams emitted on socket s
OnSocket(s) == SelectSeq(dvWire, LAMBDA d : d.sock = s)

\* a send that takes the flag from the peer and never clears it
Emit_PerPeer(kind) ==
    /\ dvWire' = dvWire \o
          IF dvTrick
          THEN <<[sock |-> dvSock, kind |-> "junk"], [sock |-> dvSock, kind |-> kind]>>
          ELSE <<[sock |-> dvSock, kind |-> kind]>>
    /\ dvJunkDue' = dvJunkDue

\* the UDP send to the peer: a junk datagram goes first while the socket's
\* flag is set, and the flag is cleared
Emit(kind) ==
    /\ dvWire' = dvWire \o
          IF dvJunkDue
          THEN <<[sock |-> dvSock, kind |-> "junk"], [sock |-> dvSock, kind |-> kind]>>
          ELSE <<[sock |-> dvSock, kind |-> kind]>>
    /\ dvJunkDue' = FALSE

\* Up(): a fresh socket is opened; no session exists
DevUp ==
    /\ ~dvUp
    /\ dvSock < MaxSockets
    /\ dvUp' = TRUE
    /\ dvSock' = dvSock + 1
    /\ dvJunkDue' = dvTrick
    /\ dvHs' = "none"
    /\ UNCHANGED <<dvTrick, dvWire>>
    /\ UNCHANGED <<replayVars, reorderVars, notDev>>

\* Down(): the socket is closed and the session keys are zeroized
DevDown ==
    /\ dvUp
    /\ dvUp' = FALSE
    /\ dvHs' = "none"
    /\ UNCHANGED <<dvTrick, dvSock, dvJunkDue, dvWire>>
    /\ UNCHANGED <<replayVars, reorderVars, notDev>>

CanSend == dvUp /\ Len(OnSocket(dvSock)) + 2 <= MaxSends

\* the first handshake initiation: a packet or the keep-alive wants a session
DevInitiate ==
    /\ CanSend
    /\ dvHs = "none"
    /\ Emit("initiation")
    /\ dvHs' = "sent"
    /\ UNCHANGED <<dvTrick, dvUp, dvSock>>
    /\ UNCHANGED <<replayVars, reorderVars, notDev>>

\* REKEY_TIMEOUT passed without a response: the initiation is sent again
DevRetransmit ==
    /\ CanSend
    /\ dvHs = "sent"
    /\ Emit("initiation")
    /\ UNCHANGED <<dvTrick, dvUp, dvSock, dvHs>>
    /\ UNCHANGED <<replayVars, reorderVars, notDev>>

\* the peer's response arrives
DevResponse ==
    /\ dvUp
    /\ dvHs = "sent"
    /\ dvHs' = "established"
    /\ UNCHANGED <<dvTrick, dvUp, dvSock, dvJunkDue, dvWire>>
    /\ UNCHANGED <<replayVars, reorderVars, notDev>>

\* a transport packet or a keep-alive on the session
DevTransport ==
    /\ CanSend
    /\ dvHs = "established"
    /\ Emit("transport")
    /\ UNCHANGED <<dvTrick, dvUp, dvSock, dvHs>>
    /\ UNCHANGED <<replayVars, reorderVars, notDev>>

\* REKEY_AFTER_TIME: a new handshake on the same socket
DevRekey ==
    /\ CanSend
    /\ dvHs = "established"
    /\ Emit("initiation")
    /\ dvHs' = "sent"
    /\ UNCHANGED <<dvTrick, dvUp, dvSock>>
    /\ UNCHANGED <<replayVars, reorderVars, notDev>>

TrickNext ==
    \/ DevUp
    \/ DevDown
    \/ DevInitiate
    \/ DevRetransmit
    \/ DevResponse
    \/ DevTransport
    \/ DevRekey

TrickSpec == TrickInit /\ [][TrickNext]_vars

\* the junk datagrams among a sequence of datagrams
Junk(w) == SelectSeq(w, LAMBDA d : d.kind = "junk")

\* C32: with the trick flag set, every socket on which something was
\* emitted shows exactly one junk datagram, it is the first datagram and
\* the first handshake initiation is the second, so that no later
\* initiation (a retransmission or a rekey) has junk before it; with the
\* flag unset no junk datagram is emitted at all.
C32_JunkOncePerSocket ==
    \A s \in 1..dvSock :
       LET w == OnSocket(s) IN
       IF dvTrick
       THEN w # <<>> => /\ Len(Junk(w)) = 1
                        /\ w[1].kind = "junk"
                        /\ w[2].kind = "initiation"
       ELSE Junk(w) = <<>>

\* two sockets, the first with a retransmission and the second with a rekey
C32_Witness ==
    /\ dvTrick
    /\ dvSock = 2
    /\ Len(SelectSeq(OnSocket(1), LAMBDA d : d.kind = "initiation")) >= 2
    /\ Len(SelectSeq(OnSocket(2), LAMBDA d : d.kind = "initiation")) >= 2
    /\ Len(Junk(dvWire)) = 2

\* ------------------------------------------------------------------
\* WireGuard device, inbound side of one peer: the sliding replay window
\* for receive counters, written from its description (the device
\* package is not part of the sources at hand). The window covers the
\* WindowSize counters up to the highest one accepted; a new session
\* starts with an empty window.
\* ------------------------------------------------------------------

WindowSize == 2       \* counters the window covers
MaxCounter == 4       \* counters run from 0 to MaxCounter
MaxArrivals == 4      \* transport packets that arrive
MaxSessions == 2      \* sessions of the peer

ReplayInit ==
    /\ ReplayIdle
    /\ TrickIdle /\ ReorderIdle
    /\ RestIdle

\* a window that forgets the counters it has slid past and takes them
ValidateCounter_NoLowerLimit(last, seen, counter) ==
    IF counter > last
    THEN [ok |-> TRUE, last |-> counter,
          seen |-> {c \in seen \cup {counter} : c > counter - WindowSize}]
    ELSE IF counter \in seen
    THEN [ok |-> FALSE, last |-> last, seen |-> seen]
    ELSE [ok |-> TRUE, last |-> last, seen |-> seen \cup {counter}]

\* the replay filter: a counter above the window slides it, one below the
\* window is refused, one inside is taken unless it is marked
ValidateCounter(last, seen, counter) ==
    IF counter > last
    THEN [ok |-> TRUE, last |-> counter,
          seen |-> {c \in seen \cup {counter} : c > counter - WindowSize}]
    ELSE IF last - counter >= WindowSize
    THEN [ok |-> FALSE, last |-> last, seen |-> seen]
    ELSE IF counter \in seen
    THEN [ok |-> FALSE, last |-> last, seen |-> seen]
    ELSE [ok |-> TRUE, last |-> last, seen |-> seen \cup {counter}]

\* an authenticated transport packet of the current session arrives; the
\* network may have duplicated or reordered it
ReplayReceive ==
    /\ Len(rpArrived) < MaxArrivals
    /\ \E counter \in 0..MaxCounter :
       LET r == ValidateCounter(rpLast, rpSeen, counter)
           packet == [session |-> rpSession, counter |-> counter]
       IN /\ rpArrived' = Append(rpArrived, packet)
          /\ rpLast' = r.last
          /\ rpSeen' = r.seen
          /\ rpAccepted' = IF r.ok THEN Append(rpAccepted, packet) ELSE rpAccepted
    /\ UNCHANGED rpSession
    /\ UNCHANGED <<trickVars, reorderVars, notDev>>

\* a handshake completes: the new session has its own counters
ReplayNewSession ==
    /\ rpSession < MaxSessions
    /\ rpSession' = rpSession + 1
    /\ rpLast' = -1
    /\ rpSeen' = {}
    /\ UNCHANGED <<rpAccepted, rpArrived>>
    /\ UNCHANGED <<trickVars, reorderVars, notDev>>

ReplayNext ==
    \/ ReplayReceive
    \/ ReplayNewSession

ReplaySpec == ReplayInit /\ [][ReplayNext]_vars

\* C33: no two accepted packets have the same session and counter.
C33_AcceptedOnce ==
    \A i, j \in 1..Len(rpAccepted) :
       i < j => rpAccepted[i] # rpAccepted[j]

\* a packet was accepted after one with a higher counter, and a packet
\* that arrived twice was accepted once and refused once
C33_Witness ==
    /\ \E i, j \in 1..Len(rpAccepted) :
          /\ i < j
          /\ rpAccepted[i].session = rpAccepted[j].session
          /\ rpAccepted[i].counter > rpAccepted[j].counter
    /\ \E i, j \in 1..Len(rpArrived) :
          /\ i < j
          /\ rpArrived[i] = rpArrived[j]
          /\ \E k \in 1..Len(rpAccepted) : rpAccepted[k] = rpArrived[i]

\* ------------------------------------------------------------------
\* WireGuard device, inbound side of one peer: transport packets are
\* decrypted by a pool of decrypt tasks and handed to the stack through a
\* reorder buffer keyed on the packet counter, written from its
\* description (the device package is not part of the sources at hand).
\* An entry is in the buffer from the moment its packet is taken from the
\* socket; a packet that comes after a later one was delivered cannot be
\* delivered in order any more and is discarded.
\* ------------------------------------------------------------------

MaxWorkers == 2       \* decrypt tasks

ReorderInit ==
    /\ ReorderIdle
    /\ TrickIdle /\ ReplayIdle
    /\ RestIdle

\* the counter delivered last, -1 before the first delivery
LastDelivered ==
    IF roDelivered = <<>> THEN -1 ELSE roDelivered[Len(roDelivered)]

\* a buffer that hands on whatever is decrypted
Deliverable_AnyReady == roReady

\* the entries the buffer can hand on: the one with the lowest counter,
\* once it is decrypted
Deliverable ==
    {c \in roReady : \A d \in roDecrypting \cup roReady : c <= d}

\* the receive task takes a packet from the socket and gives it to a free
\* decrypt task; the network delivers counters in any order
ReorderReceive ==
    /\ Cardinality(roDecrypting) < MaxWorkers
    /\ \E c \in (0..MaxCounter) \ roArrived :
       /\ roArrived' = roArrived \cup {c}
       /\ roDecrypting' = IF c > LastDelivered THEN roDecrypting \cup {c}
                          ELSE roDecrypting
    /\ UNCHANGED <<roReady, roDelivered>>
    /\ UNCHANGED <<trickVars, replayVars, notDev>>

\* a decrypt task finishes, in any order; a packet that does not
\* authenticate is discarded
DecryptDone ==
    /\ \E c \in roDecrypting, ok \in BOOLEAN :
       /\ roDecrypting' = roDecrypting \ {c}
       /\ roReady' = IF ok THEN roReady \cup {c} ELSE roReady
    /\ UNCHANGED <<roArrived, roDelivered>>
    /\ UNCHANGED <<trickVars, replayVars, notDev>>

\* the plaintext is written to the stack's link endpoint
ReorderDeliver ==
    /\ \E c \in Deliverable :
       /\ roReady' = roReady \ {c}
       /\ roDelivered' = Append(roDelivered, c)
    /\ UNCHANGED <<roArrived, roDecrypting>>
    /\ UNCHANGED <<trickVars, replayVars, notDev>>

ReorderNext ==
    \/ ReorderReceive
    \/ DecryptDone
    \/ ReorderDeliver

ReorderSpec == ReorderInit /\ [][ReorderNext]_vars

C35_UpAfterIpcSet ==
    /\ \A h \in Hops :
          dev[h].state \in {"configured", "up", "down"} => dev[h].peers # <<>>
    /\ \A k \in 1..Len(log) :
          log[k].op = "StartWireguard" =>
             IF log[k].err = ""
             THEN dev[log[k].hop].state \in {"up", "down"}
             ELSE /\ dev[log[k].hop].state \in {"none", "created", "configured"}
                  /\ At("RunWarp", "returned")
                  /\ ret = log[k].err
                  /\ tnet # log[k].hop
    /\ tnet \in Hops => dev[tnet].state \in {"up", "down"}

\* IpcSet failed for the inner hop of warp in warp after the outer device
\* was brought up
C35_Witness ==
    /\ dev["outer"].state = "up"
    /\ dev["inner"].state = "created"
    /\ ret = "IpcSet failed"
    /\ tnet = "outer"

\* C36: when generalHandler has returned after a successful dial, both
\* copying goroutines have ended and none is left at its send, both
\* connections are closed, it has returned nil, and every error a copy
\* returned has been logged (but for the error of a copy that only failed
\* because the handler closed the connections).
C36_HandlerJoinsAndLogs ==
    (hPc = "returned" /\ hRet # "dial failed") =>
        /\ \A d \in Dirs : hCopy[d].pc = "exit"
        /\ hDone = <<>>
        /\ ~hOpen.conn /\ ~hOpen.req
        /\ hRet = "nil"
        /\ \A d \in Dirs :
              hCopy[d].err \notin {"nil", "closed"} =>
                 \E k \in 1..Len(hLogged) : hLogged[k] = hCopy[d].err

\* the part of C36 about the goroutines, the connections and the result
C36_HandlerJoins ==
    (hPc = "returned" /\ hRet # "dial failed") =>
        /\ \A d \in Dirs : hCopy[d].pc = "exit"
        /\ hDone = <<>>
        /\ ~hOpen.conn /\ ~hOpen.req
        /\ hRet = "nil"
        /\ Len(hLogged) <= 1

\* C37: in a Configuration ParseConfig has returned, every peer has the
\* endpoint that was passed to ParseConfig, whatever its section holds, and
\* its keys, keep-alive, allowed IPs and trick flag are those of its own
\* section.
C37_EndpointOverride ==
    (cPc \in {"parsed", "built"} /\ cId = <<>>) =>
        /\ Len(cOut.conf.Peers) = Len(cIni.Peers)
        /\ \A i \in DOMAIN cIni.Peers :
              LET section == cIni.Peers[i]
                  peer == cOut.conf.Peers[i]
              IN /\ peer.Endpoint = cEndpoint
                 /\ peer.PublicKey = IF section.PublicKey = NoKey THEN ""
                                     ELSE ValidKeys[section.PublicKey]
                 /\ peer.PreSharedKey = IF section.PreSharedKey = NoKey THEN ZeroKey
                                        ELSE ValidKeys[section.PreSharedKey]
                 /\ peer.KeepAlive = IF section.KeepAlive = NoKey THEN 0
                                     ELSE KeepAliveNumbers[section.KeepAlive]
                 /\ peer.AllowedIPs = section.AllowedIPs
                 /\ peer.Trick = FALSE

\* two sections with different endpoints, both replaced by the argument
C37_Witness ==
    /\ cPc = "parsed"
    /\ Len(cIni.Peers) = 2
    /\ cIni.Peers[1].Endpoint # cIni.Peers[2].Endpoint
    /\ cIni.Peers[1].Endpoint # cEndpoint /\ cIni.Peers[2].Endpoint # cEndpoint
    /\ cOut.conf.Peers[1].Endpoint = cEndpoint
    /\ cOut.conf.Peers[2].Endpoint = cEndpoint
    /\ cOut.conf.Peers[1].KeepAlive # cOut.conf.Peers[2].KeepAlive

\* ------------------------------------------------------------------
\* ping.Ping.DoPing(ip) as a function of the selected modes and of what
\* the network lets each kind of probe report
\* ------------------------------------------------------------------

\* the address probed and what a probe reports: an error, or a round-trip
\* time
PingAddr == [ip |-> "162.159.192.5", port |-> "2408"]
ProbeReports == {"timeout"} \cup {"rtt " \o Itoa(t) : t \in 1..MaxRtt}

PingInit ==
    /\ pgPc = "call"
    /\ pgOps \in SUBSET Modes
    /\ pgNet \in [Modes -> ProbeReports]
    /\ pgProbes = <<>>
    /\ pgRet = <<>>
    /\ DevIdle
    /\ opts = NoOptions
    /\ WarpStart /\ FwdIdle /\ EngIdle /\ HdlIdle /\ CfgIdle /\ PsiIdle /\ MainIdle
    /\ AccIdle

\* IPingResult of a probe: Error() and Result()
PingResult(report) ==
    IF report = "timeout"
    THEN [Error |-> "timeout", Result |-> NoInfo]
    ELSE [Error |-> "nil",
          Result |-> [AddrPort |-> PingAddr,
                      RTT |-> CHOOSE t \in 1..MaxRtt : report = "rtt " \o Itoa(t)]]

\* Ping.calc(tp): the probe is run once; its error, or else its result
calc(mode, net) ==
    LET pr == PingResult(net[mode]) IN
    IF pr.Error # "nil"
    THEN [probes |-> <<mode>>, info |-> NoInfo, err |-> pr.Error]
    ELSE [probes |-> <<mode>>, info |-> pr.Result, err |-> "nil"]

\* a DoPing that goes on to the next selected mode when a probe failed
Ping_DoPing_FallThrough(ops, net) ==
    LET try(k, done) ==
           IF PingModes[k] \in ops
           THEN LET r == calc(PingModes[k], net) IN
                [r EXCEPT !.probes = done \o r.probes]
           ELSE [probes |-> done, info |-> NoInfo, err |-> "no ping operation selected"]
        r1 == try(1, <<>>)
        r2 == IF r1.err = "nil" THEN r1 ELSE try(2, r1.probes)
        r3 == IF r2.err = "nil" THEN r2 ELSE try(3, r2.probes)
        r4 == IF r3.err = "nil" THEN r3 ELSE try(4, r3.probes)
    IN IF r4.err = "nil" THEN r4 ELSE try(5, r4.probes)

\* Ping.DoPing(ip): the first of the tests of SelectedOps that holds decides
\* the probe, and its outcome is returned
Ping_DoPing(ops, net) ==
    IF "HTTP" \in ops THEN calc("HTTP", net)
    ELSE IF "TLS" \in ops THEN calc("TLS", net)
    ELSE IF "TCP" \in ops THEN calc("TCP", net)
    ELSE IF "QUIC" \in ops THEN calc("QUIC", net)
    ELSE IF "WARP" \in ops THEN calc("WARP", net)
    ELSE [probes |-> <<>>, info |-> NoInfo, err |-> "no ping operation selected"]

\* a call of DoPing
PingCall ==
    /\ pgPc = "call"
    /\ LET r == Ping_DoPing(pgOps, pgNet) IN
       /\ pgProbes' = r.probes
       /\ pgRet' = [info |-> r.info, err |-> r.err]
    /\ pgPc' = "returned"
    /\ UNCHANGED <<pgOps, pgNet>>
    /\ UNCHANGED notPing

PingSpec == PingInit /\ [][PingCall]_vars

\* C38: a call of DoPing with no mode selected has probed nothing and has
\* returned an error; a call with modes selected has made one probe, of
\* the selected mode that comes first in HTTP, TLS, TCP, QUIC, WARP; and
\* the IPInfo returned is not empty only if that probe reported no error,
\* in which case no error is returned.
C38_OneProbeByPriority ==
    pgPc = "returned" =>
        /\ pgOps = {} => (pgProbes = <<>> /\ pgRet.err # "nil")
        /\ pgOps # {} =>
              /\ Len(pgProbes) = 1
              /\ pgProbes[1] \in pgOps
              /\ \A j, k \in DOMAIN PingModes :
                    (PingModes[j] \in pgOps /\ pgProbes[1] = PingModes[k]) => k <= j
        /\ pgRet.info # NoInfo =>
              /\ pgProbes # <<>>
              /\ pgNet[pgProbes[1]] # "timeout"
              /\ pgRet.err = "nil"
        /\ pgRet.info = NoInfo <=> pgRet.err # "nil"

\* TCP and WARP are selected, the TCP probe fails and WARP would succeed:
\* only TCP was probed and the error returned
C38_Witness ==
    /\ pgPc = "returned"
    /\ pgOps = {"TCP", "WARP"}
    /\ pgNet["TCP"] = "timeout" /\ pgNet["WARP"] # "timeout"
    /\ pgProbes = <<"TCP">>
    /\ pgRet.err = "timeout"

----------------------------------------------------------------------------
\* C39: RunPsiphon starts no StartTunnel attempt once childCtx is done, be
\* it by the two minutes or by the cancellation of the caller's context:
\* every step from the select into an attempt is taken while childCtx is
\* not done, also when a tick is held at the time childCtx ends.
AttemptStarts == rPc = "select" /\ rPc' = "attempt"
C39_NoAttemptAfterDone == [][AttemptStarts => rChildErr = ""]_vars

----------------------------------------------------------------------------
\* C40: after NewVtunUDPForwarder has returned an error, whichever of
\* ResolveUDPAddr, ListenUDP and DialUDP failed, none of its sockets is open
\* and none of its goroutines has been started.
FwdFailed == fNew \in {"resolve failed", "listen failed", "dial failed"}
C40_ErrorLeavesNothingOpen ==
    FwdFailed =>
        /\ listener # "open"
        /\ rconn # "open"
        /\ hostTask.pc = IdleTask.pc
        /\ vtunTask.pc = IdleTask.pc
        /\ wg = 0
        /\ closer = "none"

\* what of C40 does hold: no goroutine is started and the virtual-stack
\* socket is not open, and a failure before DialUDP leaves no socket
C40_NoTaskStarted ==
    FwdFailed =>
        /\ rconn # "open"
        /\ hostTask.pc = IdleTask.pc
        /\ vtunTask.pc = IdleTask.pc
        /\ wg = 0
        /\ closer = "none"
        /\ fNew # "dial failed" => listener # "open"

====
